---- MODULE Spec2Model ----
(***************************************************************************)
(* Verification model of the python_projects repository: the baseball      *)
(* analytics matchup scorer, graders, archetype ETL and premium-gated      *)
(* Streamlit app, and the RadarLead search API and lookup services.        *)
(*                                                                         *)
(* Number conventions: edge scores, talent gaps and combined scores are    *)
(* integers in tenths (1.5 is 15); pitcher grade scores are in tenths of a *)
(* percentile point; hitter z-scores are in tenths; percentiles and usage  *)
(* percentages are whole numbers. NONE stands for a missing key / None.    *)
(***************************************************************************)
EXTENDS Integers, Sequences, FiniteSets, TLC

VARIABLES
    pitcher,        \* the pitcher dict handed to the matchup functions
    hitter,         \* the hitter dict handed to calculate_matchup_edge
    edge,           \* result of calculate_matchup_edge: (edge_score, reasons)
    lineup_df,      \* the lineup DataFrame: a sequence of hitter rows
    outcome,        \* what the lineup function called on lineup_df returned
    mean_scores,    \* two sums of nine combined scores, x below y
    win_probs,      \* the win probabilities computed for mean_scores
    matchup,        \* result of predict_individual_matchup(pitcher, hitter)
    grade_mode,     \* which grader is applied: "pitcher" or "hitter"
    graded_rows,    \* the two player rows handed to the grader
    grades,         \* the grader's result for each of the two rows
    session_state,  \* st.session_state of the Streamlit app
    nav_selected,   \* the value of the sidebar "Navigate" radio
    email_input,    \* the submitted value of the payment form's email field
    rendered        \* the pages drawn by the script runs of the last interaction

NONE == 0 - 1

(***************************************************************************)
(* matchup_predictor.py                                                    *)
(***************************************************************************)

\* MATCHUP_MATRIX: positive values favour the pitcher, in tenths.
MATCHUP_MATRIX ==
    [ path_geometry |->
          (<<"NORTH-SOUTH (High Rise)", "LOW-BALL GOLFER">> :> 15)
       @@ (<<"NORTH-SOUTH (High Rise)", "HIGH-BALL HUNTER">> :> (0 - 15))
       @@ (<<"EAST-WEST (Heavy Run)", "DOWNWARD (Groundball)">> :> 20)
       @@ (<<"EAST-WEST (Heavy Run)", "LEVEL (Line Drive)">> :> (0 - 10))
       @@ (<<"DECEPTIVE (Tunneling)", "UPPERCUT (Flyball)">> :> 10)
       @@ (<<"LATERAL (Sweeper/Slide)", "ALL-ZONE THREAT">> :> 5),
      skill_clash |->
          (<<"DOMINANT ACE", "FREE SWINGER">> :> 20)
       @@ (<<"PITCH TO CONTACT SURGEON", "ELITE SPOILER">> :> (0 - 25))
       @@ (<<"POWER ARMS (High Risk)", "FREE SWINGER">> :> 15)
       @@ (<<"ROTATION STABILIZER", "STANDARD">> :> 5)
       @@ (<<"POWER ARMS (High Risk)", "ELITE SPOILER">> :> (0 - 10)) ]

\* Python's `d.get(key, default) or default` on a numeric field: a missing
\* key, None and 0 all give the default.
GetOr(v, default) == IF v = NONE \/ v = 0 THEN default ELSE v

\* edge_score += delta; reasons.append(f"{rule} ...: {delta:+.1f}")
AddReason(acc, rule, delta) ==
    [ edge_score |-> acc.edge_score + delta,
      reasons |-> Append(acc.reasons, [rule |-> rule, delta |-> delta]) ]

\* Mutant: the usage threshold is not tested.
PitchTypeRule_NoUsage(acc, usage, threshold, pct, weak, strong) ==
    IF pct < 30 THEN AddReason(acc, weak, 8)
    ELSE IF pct > 70 THEN AddReason(acc, strong, 0 - 8)
    ELSE acc

\* One `if usage > t and pct < 30 ... elif usage > t and pct > 70 ...` block.
PitchTypeRule(acc, usage, threshold, pct, weak, strong) ==
    IF usage > threshold /\ pct < 30 THEN AddReason(acc, weak, 8)
    ELSE IF usage > threshold /\ pct > 70 THEN AddReason(acc, strong, 0 - 8)
    ELSE acc

calculate_matchup_edge(p, h) ==
    LET s0 == [edge_score |-> 0, reasons |-> <<>>]
        \* 1. geometry check
        geo_key == <<p.attack_profile, h.vertical_profile>>
        s1 == IF p.attack_profile # "" /\ h.vertical_profile # ""
                 /\ geo_key \in DOMAIN MATCHUP_MATRIX.path_geometry
              THEN AddReason(s0, "Geometry", MATCHUP_MATRIX.path_geometry[geo_key])
              ELSE s0
        \* 2. skill clash check
        skill_key == <<p.matchup_role, h.two_strike_identity>>
        s2 == IF p.matchup_role # "" /\ h.two_strike_identity # ""
                 /\ skill_key \in DOMAIN MATCHUP_MATRIX.skill_clash
              THEN AddReason(s1, "Skill Clash", MATCHUP_MATRIX.skill_clash[skill_key])
              ELSE s1
        \* 3. platoon logic
        pitcher_neutrality == GetOr(p.neutrality_pct, 50)
        hitter_neutrality == GetOr(h.neutrality_pct, 50)
        s3 == IF pitcher_neutrality > 75
              THEN AddReason(s2, "Pitcher Matchup-Proof", 10)
              ELSE s2
        s4 == IF hitter_neutrality < 40 /\ p.hand = h.hand /\ p.hand # ""
              THEN AddReason(s3, "Platoon Advantage", 15)
              ELSE s3
        \* 4. pitch type matchups
        ffour_usage == GetOr(p.ffour_usage, 0)
        bb_usage == GetOr(p.bb_usage, 0)
        offspeed_usage == GetOr(p.offspeed_usage, 0)
        hitter_woba_hard_pct == GetOr(h.woba_hard_pct, 50)
        hitter_woba_break_pct == GetOr(h.woba_break_pct, 50)
        hitter_woba_offspeed_pct == GetOr(h.woba_offspeed_pct, 50)
        s5 == PitchTypeRule(s4, ffour_usage, 40, hitter_woba_hard_pct,
                            "Fastball vs Weakness", "Fastball vs Strength")
        s6 == PitchTypeRule(s5, bb_usage, 30, hitter_woba_break_pct,
                            "Breaking Ball vs Weakness", "Breaking Ball vs Strength")
        s7 == PitchTypeRule(s6, offspeed_usage, 25, hitter_woba_offspeed_pct,
                            "Offspeed vs Weakness", "Offspeed vs Strength")
    IN  s7

\* grade_map.get(grade, 3)
grade_map == ("A+" :> 5) @@ ("A" :> 4) @@ ("B" :> 3) @@ ("C" :> 2) @@ ("D/F" :> 1)

GradeQuality(grade) == IF grade \in DOMAIN grade_map THEN grade_map[grade] ELSE 3

\* d.get('overall_grade', 'C'): the default replaces a missing key only.
GetGrade(d) == IF d.overall_grade = "absent" THEN "C" ELSE d.overall_grade

calculate_talent_gap_HitterMinusPitcher(p, h) ==
    GradeQuality(GetGrade(h)) - GradeQuality(GetGrade(p))

calculate_talent_gap(p, h) ==
    GradeQuality(GetGrade(p)) - GradeQuality(GetGrade(h))

\* combined_score = talent_gap * 1.5 + edge_score, in tenths.
predict_individual_matchup(p, h) ==
    LET e == calculate_matchup_edge(p, h)
        talent_gap == calculate_talent_gap(p, h)
        combined_score == talent_gap * 15 + e.edge_score
    IN  [ edge_score |-> e.edge_score,
          talent_gap |-> talent_gap,
          combined_score |-> combined_score,
          hitter_advantage |-> combined_score < 0,
          reasons |-> e.reasons,
          hitter_name |-> h.full_name,
          hitter_grade |-> GetGrade(h),
          pitcher_name |-> p.full_name,
          pitcher_grade |-> GetGrade(p) ]

\* DataFrame.sort_values(col, ascending=True) on a frame of fewer than 17
\* rows: numpy's default sort falls back to insertion sort, which keeps the
\* input order of rows with equal keys.
RECURSIVE InsertByKey(_, _, _)
InsertByKey(row, sorted, col) ==
    IF sorted = <<>> THEN <<row>>
    ELSE IF row[col] < sorted[Len(sorted)][col]
         THEN Append(InsertByKey(row, SubSeq(sorted, 1, Len(sorted) - 1), col),
                     sorted[Len(sorted)])
         ELSE Append(sorted, row)

RECURSIVE SortValues(_, _)
SortValues(rows, col) ==
    IF rows = <<>> THEN <<>>
    ELSE InsertByKey(rows[Len(rows)],
                     SortValues(SubSeq(rows, 1, Len(rows) - 1), col), col)

\* Mutant: the rows are returned in lineup order.
predict_lineup_performance_Unsorted(p, lineup) ==
    [i \in 1..Len(lineup) |-> predict_individual_matchup(p, lineup[i])]

predict_lineup_performance(p, lineup) ==
    LET matchup_results == [i \in 1..Len(lineup) |-> predict_individual_matchup(p, lineup[i])]
    IN  SortValues(matchup_results, "combined_score")

RECURSIVE SumScores(_)
SumScores(rows) ==
    IF rows = <<>> THEN 0 ELSE rows[1].combined_score + SumScores(Tail(rows))

\* e^q for whole q in 0..5, times 1000.
ExpWhole == <<1000, 2718, 7389, 20086, 54598, 148413>>

\* The Taylor terms of e^(r/den) for 0 <= r < den, times 10^6.
RECURSIVE ExpFracTerms(_, _, _, _)
ExpFracTerms(r, den, k, term) ==
    IF term = 0 THEN 0
    ELSE term + ExpFracTerms(r, den, k + 1, (term * r) \div (den * k))

\* np.exp(num / den) for num >= 0, times 1000 (fixed point, truncated).
ExpPos(num, den) ==
    LET q == num \div den
        r == num % den
    IN  (ExpWhole[q + 1] * (ExpFracTerms(r, den, 1, 1000000) \div 1000)) \div 1000

\* np.exp(num / den) times 1000.
exp_milli(num, den) ==
    IF num >= 0 THEN ExpPos(num, den)
    ELSE 1000000 \div ExpPos(0 - num, den)

\* Mutant: the sign of the coefficient is lost.
win_probability_SignLost(score_sum) ==
    LET denom == 1000 + exp_milli(score_sum, 300)
    IN  (2000000 + denom) \div (2 * denom)

\* win_prob = 100 / (1 + np.exp(-0.3 * avg_advantage)) with avg_advantage the
\* mean of nine combined scores whose sum is score_sum tenths, so that
\* -0.3 * avg_advantage = -score_sum / 300; round(win_prob, 1) in tenths of a
\* percent.
win_probability(score_sum) ==
    LET denom == 1000 + exp_milli(0 - score_sum, 300)
    IN  (2000000 + denom) \div (2 * denom)

Head3(rows) == SubSeq(rows, 1, IF Len(rows) < 3 THEN Len(rows) ELSE 3)
Tail3(rows) == SubSeq(rows, IF Len(rows) < 3 THEN 1 ELSE Len(rows) - 2, Len(rows))

ThreatEntry(row) ==
    [name |-> row.hitter_name, grade |-> row.hitter_grade,
     score |-> row.combined_score, reasons |-> row.reasons]

NoOutcome ==
    [ fn |-> "none", status |-> "none", score_sum |-> 0, win_probability |-> 0,
      pitcher_advantage |-> 0, lineup_analysis |-> <<>>,
      top_threats |-> <<>>, easy_outs |-> <<>> ]

\* Lines 248-288: the body of predict_game_outcome after the length check.
GameOutcomeBody(p, lineup) ==
    LET lineup_analysis == predict_lineup_performance(p, lineup)
        score_sum == SumScores(lineup_analysis)
        top_threats == Head3(SelectSeq(lineup_analysis, LAMBDA r : r.hitter_advantage))
        easy_outs == Tail3(SelectSeq(lineup_analysis, LAMBDA r : ~r.hitter_advantage))
    IN  [ fn |-> "predict_game_outcome",
          status |-> "ok",
          score_sum |-> score_sum,
          win_probability |-> win_probability(score_sum),
          \* round(avg_advantage, 2), in hundredths
          pitcher_advantage |-> (20 * score_sum + 9) \div 18,
          lineup_analysis |-> lineup_analysis,
          top_threats |-> [i \in 1..Len(top_threats) |-> ThreatEntry(top_threats[i])],
          easy_outs |-> [i \in 1..Len(easy_outs) |-> ThreatEntry(easy_outs[i])] ]

\* Mutant: only a lineup longer than nine is refused.
predict_game_outcome_AtMost9(p, lineup) ==
    IF Len(lineup) > 9
    THEN [NoOutcome EXCEPT !.fn = "predict_game_outcome", !.status = "ValueError"]
    ELSE GameOutcomeBody(p, lineup)

predict_game_outcome(p, lineup) ==
    IF Len(lineup) # 9
    THEN [NoOutcome EXCEPT !.fn = "predict_game_outcome", !.status = "ValueError"]
    ELSE GameOutcomeBody(p, lineup)

\* The loop `lineup_analysis.loc[hitter_name == row.hitter_name, ...] = idx + 1`
\* over the sorted rows: every row carrying the name is overwritten, so a row
\* ends with the position of the last sorted row that has its name.
LastIndexOfName(sorted, name) ==
    CHOOSE j \in 1..Len(sorted) :
        /\ sorted[j].hitter_name = name
        /\ \A k \in (j + 1)..Len(sorted) : sorted[k].hitter_name # name

OrderReason(idx) ==
    IF idx < 3 THEN "Top of order - Strong matchup advantage"
    ELSE IF idx < 6 THEN "Middle of order - Neutral matchup"
    ELSE "Bottom of order - Pitcher advantage"

optimize_lineup_order(p, lineup) ==
    IF Len(lineup) # 9
    THEN [NoOutcome EXCEPT !.fn = "optimize_lineup_order", !.status = "ValueError"]
    ELSE
      LET lineup_analysis == predict_lineup_performance(p, lineup)
          sorted_lineup == SortValues(lineup_analysis, "combined_score")
          assigned == [i \in 1..Len(lineup_analysis) |->
                         LET last == LastIndexOfName(sorted_lineup,
                                                     lineup_analysis[i].hitter_name)
                         IN  [ suggested_order |-> last,
                               hitter_name |-> lineup_analysis[i].hitter_name,
                               hitter_grade |-> lineup_analysis[i].hitter_grade,
                               combined_score |-> lineup_analysis[i].combined_score,
                               hitter_advantage |-> lineup_analysis[i].hitter_advantage,
                               order_reason |-> OrderReason(last - 1) ]]
      IN  [NoOutcome EXCEPT !.fn = "optimize_lineup_order", !.status = "ok",
                            !.lineup_analysis = SortValues(assigned, "suggested_order")]

(***************************************************************************)
(* tbl_dim_pitcher_archetypes.py / tbl_dim_hitter_archetypes.py: grading   *)
(***************************************************************************)

\* Mutant: the weights are 0.70 / 0.30.
PitcherBaseScore_Weights7030(row) ==
    7 * row.stuff_plus_pct + 3 * row.location_plus_pct

\* base_score = stuff_plus * 0.60 + location_plus * 0.40, in tenths.
PitcherBaseScore(row) ==
    6 * row.stuff_plus_pct + 4 * row.location_plus_pct

\* Mutant: the sample-size penalty is added instead of subtracted.
PitcherAdjustedScore_PenaltyAdds(row) ==
    PitcherBaseScore(row)
      + (IF row.is_starter = 1 THEN 50 ELSE 0)
      + (IF row.total_appearances < 5 THEN 100 ELSE 0)

\* The starter boost (+5) and the sample-size penalty (-10).
PitcherAdjustedScore(row) ==
    PitcherBaseScore(row)
      + (IF row.is_starter = 1 THEN 50 ELSE 0)
      - (IF row.total_appearances < 5 THEN 100 ELSE 0)

\* Mutant: the B cut-off is tested before the A cut-off.
PitcherLetter_BBeforeA(base_score) ==
    IF base_score >= 850 THEN "A+"
    ELSE IF base_score >= 600 THEN "B"
    ELSE IF base_score >= 750 THEN "A"
    ELSE IF base_score >= 450 THEN "C"
    ELSE "F"

\* The final letter grade of a pitcher (cut-offs 85 / 75 / 60 / 45).
PitcherLetter(base_score) ==
    IF base_score >= 850 THEN "A+"
    ELSE IF base_score >= 750 THEN "A"
    ELSE IF base_score >= 600 THEN "B"
    ELSE IF base_score >= 450 THEN "C"
    ELSE "F"

calculate_pitcher_grade(row) ==
    [ grade |-> PitcherLetter(PitcherAdjustedScore(row)),
      score |-> PitcherAdjustedScore(row),
      stuff_plus |-> row.stuff_plus_pct,
      location_plus |-> row.location_plus_pct ]

\* The reliability penalty on the combined z-score, in tenths.
HitterAdjustedZ(row) ==
    IF row.total_pitches_faced < 500 THEN row.combined_scouting_z - 10
    ELSE IF row.total_pitches_faced < 1000 THEN row.combined_scouting_z - 4
    ELSE row.combined_scouting_z

\* The universal grade thresholds (2.4 / 1.5 / 0.6 / -0.5).
ScoutingLetter(z_score) ==
    IF z_score >= 24 THEN "A+"
    ELSE IF z_score >= 15 THEN "A"
    ELSE IF z_score >= 6 THEN "B"
    ELSE IF z_score >= 0 - 5 THEN "C"
    ELSE "D/F"

calculate_scouting_grade(row) ==
    [ grade |-> ScoutingLetter(HitterAdjustedZ(row)),
      score |-> HitterAdjustedZ(row) ]

\* Pitcher rows: percentiles whose weighted sums land on and around every
\* cut-off, both starter flags, appearances on both sides of 5.
PitcherRows ==
    [ stuff_plus_pct : {0, 40, 50, 75, 90, 100},
      location_plus_pct : {0, 40, 50, 75, 90, 100},
      is_starter : {0, 1},
      total_appearances : {4, 5} ]

\* Least and greatest combined z-score of a hitter row, in tenths.
MinZ == 0 - 7
MaxZ == 35

HitterRows ==
    [ combined_scouting_z : MinZ..MaxZ,
      total_pitches_faced : {499, 500, 999, 1000} ]

(***************************************************************************)
(* app/main.py, app/utils/app_helpers.py, app/pages/*.py: the Streamlit    *)
(* app. One interaction is a widget event followed by the script run it    *)
(* triggers and, after st.rerun(), the run that follows. The page modules  *)
(* are taken to import cleanly.                                            *)
(***************************************************************************)

\* The sidebar navigation of main.py.
pages ==
    ("Home" :> "home") @@ ("Dashboard" :> "dashboard")
      @@ ("Predictions" :> "predictions") @@ ("Comparisons" :> "comparisons")
      @@ ("Standings" :> "standings")

\* init_session_state on a fresh session, then the first script run.
InitialSession ==
    [ authenticated |-> FALSE, user_email |-> "None", show_payment |-> FALSE,
      db_engine |-> "None", selected_page |-> "home" ]

\* Mutant: everyone counts as a paid member.
check_authentication_Always(ss) == TRUE

check_authentication(ss) == ss.authenticated

\* get_db_engine: connects on first use; a failed connection leaves None.
get_db_engine(ss, db_ok) ==
    IF ss.db_engine = "None" /\ db_ok THEN [ss EXCEPT !.db_engine = "engine"]
    ELSE ss

Drawn(ss, page, rerun) == [ss |-> ss, page |-> page, rerun |-> rerun]

\* payment.show_premium_gate
show_premium_gate(ss, ev) ==
    IF ev = "gate_upgrade"
    THEN Drawn([ss EXCEPT !.show_payment = TRUE], "premium_gate", TRUE)
    ELSE Drawn(ss, "premium_gate", FALSE)

\* payment.show
payment_show(ss, ev, email) ==
    IF ev = "get_premium"
    THEN Drawn([ss EXCEPT !.authenticated = TRUE,
                          !.user_email = IF email # "" THEN email
                                         ELSE "demo@baseballanalytics.com",
                          !.show_payment = FALSE], "payment", TRUE)
    ELSE Drawn(ss, "payment", FALSE)

\* home.show
home_show(ss, ev, db_ok) ==
    IF ev = "home_cta"
    THEN Drawn([get_db_engine(ss, db_ok) EXCEPT !.show_payment = TRUE], "home", TRUE)
    ELSE Drawn(get_db_engine(ss, db_ok), "home", FALSE)

\* main.py lines 98-121: route to the selected page.
Route(ss, ev, email, db_ok) ==
    LET page_name == ss.selected_page
    IN  IF page_name = "home" THEN home_show(ss, ev, db_ok)
        ELSE IF page_name = "dashboard"
             THEN Drawn(get_db_engine(ss, db_ok), "dashboard", FALSE)
        ELSE IF page_name = "predictions"
             THEN IF check_authentication(ss)
                  THEN Drawn(get_db_engine(ss, db_ok), "predictions", FALSE)
                  ELSE show_premium_gate(ss, ev)
        ELSE IF page_name = "comparisons"
             THEN IF check_authentication(ss)
                  THEN Drawn(get_db_engine(ss, db_ok), "comparisons", FALSE)
                  ELSE show_premium_gate(ss, ev)
        ELSE IF page_name = "standings" THEN Drawn(ss, "standings", FALSE)
        ELSE IF page_name = "payment" THEN payment_show(ss, ev, email)
        ELSE home_show(ss, ev, db_ok)

\* main.py lines 78-96: the navigation radio and the show_payment override.
Navigate(ss, selected) ==
    IF ss.show_payment
    THEN [ss EXCEPT !.selected_page = "payment"]
    ELSE LET page == IF selected \in DOMAIN pages THEN pages[selected] ELSE "home"
         IN  [ss EXCEPT !.selected_page = page,
                        !.show_payment = IF page # "payment" THEN FALSE
                                         ELSE ss.show_payment]

\* One run of main.py from top to bottom (or to the first st.rerun()).
ScriptRun(ss, ev, selected, email, db_ok) ==
    IF ss.authenticated
    THEN IF ev = "logout"
         THEN Drawn([ss EXCEPT !.authenticated = FALSE, !.user_email = "None"],
                    "nothing", TRUE)
         ELSE Route(Navigate(ss, selected), ev, email, db_ok)
    ELSE LET ss1 == IF ev = "login_upgrade"
                    THEN [ss EXCEPT !.show_payment = TRUE] ELSE ss
         IN  Route(Navigate(ss1, selected), ev, email, db_ok)

\* The rows drawn and the session left by one interaction.
Interaction(ss, ev, selected, email, db_ok) ==
    LET first == ScriptRun(ss, ev, selected, email, db_ok)
    IN  IF first.rerun
        THEN LET second == ScriptRun(first.ss, "none", selected, email, db_ok)
             IN  [ss |-> second.ss, rendered |-> <<first.page, second.page>>]
        ELSE [ss |-> first.ss, rendered |-> <<first.page>>]

Emails == {"", "fan@example.com"}

(***************************************************************************)
(* Inputs of the edge scorer: pitcher and hitter archetype rows.           *)
(***************************************************************************)
Pitchers ==
    [ full_name : {"P"},
      overall_grade : {"C"},
      attack_profile : {"", "NORTH-SOUTH (High Rise)", "BALANCED"},
      matchup_role : {"DOMINANT ACE", "ROTATION STABILIZER"},
      neutrality_pct : {NONE, 80},
      hand : {"", "R"},
      ffour_usage : {40, 45},
      bb_usage : {0, 35},
      offspeed_usage : {NONE, 30} ]

Hitters ==
    [ full_name : {"H"},
      overall_grade : {"C"},
      vertical_profile : {"LOW-BALL GOLFER", "HIGH-BALL HUNTER", "ALL-ZONE THREAT"},
      two_strike_identity : {"FREE SWINGER", "ELITE SPOILER"},
      neutrality_pct : {30, 50},
      hand : {"R", "L"},
      woba_hard_pct : {0, 20, 80},
      woba_break_pct : {20, 50},
      woba_offspeed_pct : {50, 80} ]

NoEdge == [done |-> FALSE, edge_score |-> 0, reasons |-> <<>>]

NoMatchup ==
    [ done |-> FALSE, edge_score |-> 0, talent_gap |-> 0, combined_score |-> 0,
      hitter_advantage |-> FALSE, reasons |-> <<>>, hitter_name |-> "",
      hitter_grade |-> "", pitcher_name |-> "", pitcher_grade |-> "" ]

\* The lineup functions are exercised with these rows.
PNeutral ==
    [ full_name |-> "Neutral Arm", overall_grade |-> "C",
      attack_profile |-> "BALANCED", matchup_role |-> "ROTATION STABILIZER",
      neutrality_pct |-> 50, hand |-> "R",
      ffour_usage |-> 30, bb_usage |-> 20, offspeed_usage |-> 10 ]

PAce ==
    [ full_name |-> "Ace", overall_grade |-> "A+",
      attack_profile |-> "NORTH-SOUTH (High Rise)", matchup_role |-> "DOMINANT ACE",
      neutrality_pct |-> 80, hand |-> "R",
      ffour_usage |-> 45, bb_usage |-> 35, offspeed_usage |-> 30 ]

HNeutral ==
    [ full_name |-> "Even", overall_grade |-> "C",
      vertical_profile |-> "ALL-ZONE THREAT", two_strike_identity |-> "ELITE SPOILER",
      neutrality_pct |-> 50, hand |-> "L",
      woba_hard_pct |-> 50, woba_break_pct |-> 50, woba_offspeed_pct |-> 50 ]

HStar ==
    [ full_name |-> "Star", overall_grade |-> "A+",
      vertical_profile |-> "HIGH-BALL HUNTER", two_strike_identity |-> "ELITE SPOILER",
      neutrality_pct |-> 60, hand |-> "L",
      woba_hard_pct |-> 80, woba_break_pct |-> 80, woba_offspeed_pct |-> 80 ]

HWeak ==
    [ full_name |-> "Weak", overall_grade |-> "D/F",
      vertical_profile |-> "LOW-BALL GOLFER", two_strike_identity |-> "FREE SWINGER",
      neutrality_pct |-> 30, hand |-> "R",
      woba_hard_pct |-> 20, woba_break_pct |-> 20, woba_offspeed_pct |-> 20 ]

LineupPitchers == {PNeutral, PAce}
LineupHitters == {HNeutral, HStar, HWeak}

\* Longest lineup handed to the lineup functions.
MaxLineup == 10

\* Lineups of 0..MaxLineup hitters: the first VariedSlots batting positions take
\* any of the three hitters, the later ones rotate through them.
VariedSlots == 6
Rotation == <<HNeutral, HStar, HWeak>>
LineupOf(n, f) ==
    [i \in 1..n |-> IF i <= VariedSlots THEN f[i] ELSE Rotation[(i % 3) + 1]]
Lineups ==
    UNION {{LineupOf(n, f) :
               f \in [1..(IF n <= VariedSlots THEN n ELSE VariedSlots) -> LineupHitters]} :
           n \in 0..MaxLineup}

SetMin(S) == CHOOSE x \in S : \A y \in S : x <= y
SetMax(S) == CHOOSE x \in S : \A y \in S : x >= y
Range(f) == {f[k] : k \in DOMAIN f}

\* The least and greatest combined score any pitcher/hitter pair can get:
\* 1.5 times the widest talent gap plus every rule firing one way.
MinCombined ==
    15 * (SetMin(Range(grade_map)) - SetMax(Range(grade_map)))
      + SetMin(Range(MATCHUP_MATRIX.path_geometry) \cup {0})
      + SetMin(Range(MATCHUP_MATRIX.skill_clash) \cup {0}) - 3 * 8
MaxCombined ==
    15 * (SetMax(Range(grade_map)) - SetMin(Range(grade_map)))
      + SetMax(Range(MATCHUP_MATRIX.path_geometry) \cup {0})
      + SetMax(Range(MATCHUP_MATRIX.skill_clash) \cup {0}) + 10 + 15 + 3 * 8

\* Every sum of nine combined scores, and the win probability of each.
SumRange == (9 * MinCombined)..(9 * MaxCombined)

\* Largest gap between the two mean scores that are compared.
MaxStep == 3

NoProbs == [done |-> FALSE, x |-> 0, y |-> 0]

VARIABLES
    dim_pitcher_archetypes, \* rows of the table dim_pitcher_archetypes
    dim_hitter_archetypes,  \* rows of the table dim_hitter_archetypes
    fact_pitchers,          \* pitchers the extraction query returns today
    fact_hitters,           \* hitters the extraction query returns today
    clock,                  \* datetime.now(), advancing with every run
    etl_log,                \* the last line an ETL run printed
    last_loaded             \* history: the frame the last successful run computed

VARIABLES
    places_service,  \* RadarLead app.py: TRUE when PlacesService() was built
    search_query,    \* rows of the SearchQuery table, in insertion order
    business,        \* rows of the Business table, in insertion order
    request,         \* the JSON body of the last POST /api/search
    response         \* the response to it

VARIABLES
    svc_call,    \* a RadarLead service method call: the method, its arguments
                 \* and what every external request made for it will answer
    svc_result   \* how the call ended: returned value or raised exception,
                 \* the lines it printed and the requests it sent

VARIABLES
    osm_now,            \* time.time(), in tenths of a second
    last_request_time,  \* OSMService.last_request_time
    nominatim_prev,     \* when the Nominatim request before the last was sent
    nominatim_last      \* when the last Nominatim request was sent

VARIABLES
    radar_pc,             \* run_radar_test: the statement it is about to run
    radar_max,            \* run_radar_test: the max_results argument
    browser,              \* "none", "open", "closed" (browser.close) or "stopped"
    feed,                 \* div[role="article"] elements in the page now
    previous_count,       \* run_radar_test: previous_count
    scroll_attempts,      \* run_radar_test: scroll_attempts
    listings,             \* number of listings found at line 67
    listing_idx,          \* position of the for loop in listings[:max_results]
    checked_count,        \* run_radar_test: checked_count
    checked,              \* listings whose website check completed
    leads                 \* run_radar_test: leads (listing positions)

VARIABLES
    fact_statcast_pitches, \* game_date of each stored row, or NoTable
    today,                 \* date.today(), as a day number
    game_days,             \* the days on which games were played
    statcast_request,      \* window of the last pyb.statcast call of a run
    update_outcome         \* how the last run ended

VARIABLES
    bulk_matchups,        \* predict_bulk_matchups: the matchups argument
    bulk_results,         \* predict_bulk_matchups: rows of the returned frame
    bulk_errors,          \* number of "Error processing matchup" lines printed
    bulk_done             \* predict_bulk_matchups has returned

VARIABLES
    map_center,        \* st.session_state.map_center, <<lat, lng>>
    last_clicked,      \* what the map component reports as last_clicked
    business_type_map, \* the business type text input of the map page
    radius_km,         \* the radius slider of the map page
    search_location,   \* st.session_state.search_location, NoPoint when unset
    map_businesses,    \* st.session_state.businesses is non-empty
    searched_at,       \* coordinates the last interaction searched at
    map_event          \* the last interaction with the map page

VARIABLES
    web_service,       \* which service is searched: "places" or "osm"
    web_raw,           \* what the remote API answers, one record per place
    web_businesses,    \* the businesses the service returns
    web_without,       \* filter_businesses_without_website(businesses)
    web_with,          \* the "With Websites Only" list of display_results
    web_done           \* the search has run

VARIABLES
    pitcher_stats,     \* the ranked_stats row of a pitcher
    hitter_stats,      \* the hitter_ranked row of a hitter
    pitcher_archetype, \* the pitcher's row of dim_pitcher_archetypes
    hitter_archetype,  \* the hitter's row of dim_hitter_archetypes
    archetype_edge     \* calculate_matchup_edge of the two rows

mvars == <<pitcher, hitter, edge, lineup_df, outcome, mean_scores, win_probs, matchup>>
gvars == <<grade_mode, graded_rows, grades>>
avars == <<session_state, nav_selected, email_input, rendered>>
evars == <<dim_pitcher_archetypes, dim_hitter_archetypes, fact_pitchers,
           fact_hitters, clock, etl_log, last_loaded>>
rvars == <<places_service, search_query, business, request, response>>
svars == <<svc_call, svc_result>>
tvars == <<osm_now, last_request_time, nominatim_prev, nominatim_last>>
bvars == <<radar_pc, radar_max, browser, feed, previous_count, scroll_attempts, listings, listing_idx, checked_count, checked, leads>>
pvars == <<fact_statcast_pitches, today, game_days, statcast_request, update_outcome>>
kvars == <<bulk_matchups, bulk_results, bulk_errors, bulk_done>>
cvars == <<map_center, last_clicked, business_type_map, radius_km, search_location, map_businesses, searched_at, map_event>>
wvars == <<web_service, web_raw, web_businesses, web_without, web_with, web_done>>
hvars == <<pitcher_stats, hitter_stats, pitcher_archetype, hitter_archetype, archetype_edge>>
vars == <<mvars, gvars, avars, evars, rvars, svars, tvars, bvars, pvars, kvars, cvars, wvars, hvars>>

\* What each group of operations leaves alone.
notMatchup == <<gvars, avars, evars, rvars, svars, tvars, bvars, pvars, kvars, cvars, wvars, hvars>>
notGrading == <<mvars, avars, evars, rvars, svars, tvars, bvars, pvars, kvars, cvars, wvars, hvars>>
notApp == <<mvars, gvars, evars, rvars, svars, tvars, bvars, pvars, kvars, cvars, wvars, hvars>>
notEtl == <<mvars, gvars, avars, rvars, svars, tvars, bvars, pvars, kvars, cvars, wvars, hvars>>
notApi == <<mvars, gvars, avars, evars, svars, tvars, bvars, pvars, kvars, cvars, wvars, hvars>>
notService == <<mvars, gvars, avars, evars, rvars, tvars, bvars, pvars, kvars, cvars, wvars, hvars>>
notOsm == <<mvars, gvars, avars, evars, rvars, svars, bvars, pvars, kvars, cvars, wvars, hvars>>
notRadar == <<mvars, gvars, avars, evars, rvars, svars, tvars, pvars, kvars, cvars, wvars, hvars>>
notStatcast == <<mvars, gvars, avars, evars, rvars, svars, tvars, bvars, kvars, cvars, wvars, hvars>>
notBulk == <<mvars, gvars, avars, evars, rvars, svars, tvars, bvars, pvars, cvars, wvars, hvars>>
notMap == <<mvars, gvars, avars, evars, rvars, svars, tvars, bvars, pvars, kvars, wvars, hvars>>
notWebsite == <<mvars, gvars, avars, evars, rvars, svars, tvars, bvars, pvars, kvars, cvars, hvars>>
notArchetype == <<mvars, gvars, avars, evars, rvars, svars, tvars, bvars, pvars, kvars, cvars, wvars>>

\* The matchup functions are not in use.
MatchupIdle ==
    /\ pitcher = PNeutral
    /\ hitter = HNeutral
    /\ edge = NoEdge
    /\ lineup_df = <<>>
    /\ outcome = NoOutcome
    /\ mean_scores = [x |-> 0, y |-> 0]
    /\ win_probs = NoProbs
    /\ matchup = NoMatchup

\* The graders are not in use.
GradingIdle ==
    /\ grade_mode = "idle"
    /\ graded_rows = <<>>
    /\ grades = <<>>

\* The Streamlit app has just been opened.
AppOpened ==
    /\ session_state = InitialSession
    /\ nav_selected = "Home"
    /\ email_input = ""
    /\ rendered = <<"home">>

\* No archetype ETL has run yet: the tables hold no rows.
NoFrame == [rows |-> {}, calculation_date |-> NONE]
EtlIdle ==
    /\ dim_pitcher_archetypes = {}
    /\ dim_hitter_archetypes = {}
    /\ fact_pitchers = {}
    /\ fact_hitters = {}
    /\ clock = 0
    /\ etl_log = [run |-> "none", status |-> "none", rows |-> 0]
    /\ last_loaded = [pitcher |-> NoFrame, hitter |-> NoFrame]

\* The RadarLead API has served no request and its tables are empty.
NoRequest ==
    [ business_type |-> "absent", location |-> "absent", search_type |-> "absent",
      latitude |-> NONE, longitude |-> NONE ]
NoResponse ==
    [ status |-> 0, body |-> "none", external_search |-> FALSE,
      total_businesses |-> NONE, businesses_without_website |-> NONE,
      search_id |-> NONE ]
ApiIdle ==
    /\ places_service = TRUE
    /\ search_query = <<>>
    /\ business = <<>>
    /\ request = NoRequest
    /\ response = NoResponse

\* No service method has been called.
NoCall ==
    [ method |-> "none", location |-> "", geocode |-> "not_found",
      pages |-> <<>>, details |-> [p \in {"a", "b", "c"} |-> "not_ok"],
      max_results |-> 0,
      business_type |-> "", overpass |-> "no_elements", failure |-> "none" ]
NoResult ==
    [ done |-> FALSE, raised |-> FALSE, none |-> FALSE, value |-> <<>>,
      printed |-> <<>>, requests |-> <<>> ]
ServiceIdle ==
    /\ svc_call = NoCall
    /\ svc_result = NoResult

\* time.sleep / time.time run in tenths of a second: 1.0 second.
OneSecond == 10

\* An OSMService was just built (last_request_time = 0) and has sent nothing.
OsmIdle ==
    /\ osm_now = OneSecond
    /\ last_request_time = 0
    /\ nominatim_prev = NONE
    /\ nominatim_last = NONE

\* run_radar_test has not been called.
RadarIdle ==
    /\ radar_pc = "start"
    /\ radar_max = 0
    /\ browser = "none"
    /\ feed = 0
    /\ previous_count = 0
    /\ scroll_attempts = 0
    /\ listings = 0
    /\ listing_idx = 0
    /\ checked_count = 0
    /\ checked = {}
    /\ leads = <<>>

\* The fact_statcast_pitches table does not exist yet and nothing has run.
NoTable == <<NONE>>
NoFetch == <<>>
FirstDay == 8
StatcastIdle ==
    /\ fact_statcast_pitches = NoTable
    /\ today = FirstDay
    /\ game_days = {}
    /\ statcast_request = NoFetch
    /\ update_outcome = "none"

\* predict_bulk_matchups has not been called.
BulkIdle ==
    /\ bulk_matchups = <<>>
    /\ bulk_results = <<>>
    /\ bulk_errors = 0
    /\ bulk_done = FALSE

\* Coordinates are counted in units of the click threshold (0.0001 degrees).
NoPoint == <<>>
Montreal == <<0, 0>>

\* The map page has been rendered once and nothing was done on it.
MapIdle ==
    /\ map_center = Montreal
    /\ last_clicked = NoPoint
    /\ business_type_map = ""
    /\ radius_km = 5
    /\ search_location = NoPoint
    /\ map_businesses = FALSE
    /\ searched_at = NoPoint
    /\ map_event = "none"

\* No website search has been made.
WebsiteIdle ==
    /\ web_service = "none"
    /\ web_raw = <<>>
    /\ web_businesses = <<>>
    /\ web_without = <<>>
    /\ web_with = <<>>
    /\ web_done = FALSE

\* No archetype row is being derived.
NoRow == [made |-> FALSE]
ArchetypeIdle ==
    /\ pitcher_stats = NoRow
    /\ hitter_stats = NoRow
    /\ pitcher_archetype = NoRow
    /\ hitter_archetype = NoRow
    /\ archetype_edge = NoEdge

(***************************************************************************)
(* SpecEdge: calculate_matchup_edge applied to one pitcher/hitter pair.    *)
(***************************************************************************)
InitEdge ==
    /\ ArchetypeIdle
    /\ WebsiteIdle
    /\ MapIdle
    /\ BulkIdle
    /\ StatcastIdle
    /\ RadarIdle
    /\ OsmIdle
    /\ ServiceIdle
    /\ ApiIdle
    /\ EtlIdle
    /\ GradingIdle
    /\ AppOpened
    /\ pitcher \in Pitchers
    /\ hitter \in Hitters
    /\ edge = NoEdge
    /\ lineup_df = <<>>
    /\ outcome = NoOutcome
    /\ mean_scores = [x |-> 0, y |-> 0]
    /\ win_probs = NoProbs
    /\ matchup = NoMatchup

CalculateMatchupEdge ==
    /\ ~edge.done
    /\ edge' = [done |-> TRUE] @@ calculate_matchup_edge(pitcher, hitter)
    /\ UNCHANGED <<pitcher, hitter, lineup_df, outcome, mean_scores, win_probs, matchup, notMatchup>>

NextEdge == CalculateMatchupEdge

SpecEdge == InitEdge /\ [][NextEdge]_vars

(***************************************************************************)
(* SpecLineup: the lineup functions applied to one pitcher and one lineup. *)
(***************************************************************************)
InitLineup ==
    /\ ArchetypeIdle
    /\ WebsiteIdle
    /\ MapIdle
    /\ BulkIdle
    /\ StatcastIdle
    /\ RadarIdle
    /\ OsmIdle
    /\ ServiceIdle
    /\ ApiIdle
    /\ EtlIdle
    /\ GradingIdle
    /\ AppOpened
    /\ pitcher \in LineupPitchers
    /\ hitter = HNeutral
    /\ edge = NoEdge
    /\ lineup_df \in Lineups
    /\ outcome = NoOutcome
    /\ mean_scores = [x |-> 0, y |-> 0]
    /\ win_probs = NoProbs
    /\ matchup = NoMatchup

PredictGameOutcome ==
    /\ outcome.fn = "none"
    /\ outcome' = predict_game_outcome(pitcher, lineup_df)
    /\ UNCHANGED <<pitcher, hitter, edge, lineup_df, mean_scores, win_probs, matchup, notMatchup>>

OptimizeLineupOrder ==
    /\ outcome.fn = "none"
    /\ outcome' = optimize_lineup_order(pitcher, lineup_df)
    /\ UNCHANGED <<pitcher, hitter, edge, lineup_df, mean_scores, win_probs, matchup, notMatchup>>

NextLineup == PredictGameOutcome \/ OptimizeLineupOrder

SpecLineup == InitLineup /\ [][NextLineup]_vars

(***************************************************************************)
(* SpecWinProb: the win-probability conversion of predict_game_outcome     *)
(* applied to two mean scores of the range the scorer can produce.         *)
(***************************************************************************)
InitWinProb ==
    /\ ArchetypeIdle
    /\ WebsiteIdle
    /\ MapIdle
    /\ BulkIdle
    /\ StatcastIdle
    /\ RadarIdle
    /\ OsmIdle
    /\ ServiceIdle
    /\ ApiIdle
    /\ EtlIdle
    /\ GradingIdle
    /\ AppOpened
    /\ pitcher = PNeutral
    /\ hitter = HNeutral
    /\ edge = NoEdge
    /\ lineup_df = <<>>
    /\ outcome = NoOutcome
    /\ \E x \in SumRange, d \in 1..MaxStep :
           /\ x + d \in SumRange
           /\ mean_scores = [x |-> x, y |-> x + d]
    /\ win_probs = NoProbs
    /\ matchup = NoMatchup

WinProbability ==
    /\ ~win_probs.done
    /\ win_probs' = [done |-> TRUE, x |-> win_probability(mean_scores.x),
                                    y |-> win_probability(mean_scores.y)]
    /\ UNCHANGED <<pitcher, hitter, edge, lineup_df, outcome, mean_scores, matchup, notMatchup>>

NextWinProb == WinProbability

SpecWinProb == InitWinProb /\ [][NextWinProb]_vars

(***************************************************************************)
(* SpecGrade: a grader applied to two player rows.                         *)
(***************************************************************************)
InitGrade ==
    /\ ArchetypeIdle
    /\ WebsiteIdle
    /\ MapIdle
    /\ BulkIdle
    /\ StatcastIdle
    /\ RadarIdle
    /\ OsmIdle
    /\ ServiceIdle
    /\ ApiIdle
    /\ EtlIdle
    /\ MatchupIdle
    /\ AppOpened
    /\ \/ grade_mode = "pitcher" /\ graded_rows \in PitcherRows \X PitcherRows
       \/ grade_mode = "hitter" /\ graded_rows \in HitterRows \X HitterRows
    /\ grades = <<>>

GradePitchers ==
    /\ grade_mode = "pitcher"
    /\ grades = <<>>
    /\ grades' = <<calculate_pitcher_grade(graded_rows[1]),
                   calculate_pitcher_grade(graded_rows[2])>>
    /\ UNCHANGED <<grade_mode, graded_rows, notGrading>>

GradeHitters ==
    /\ grade_mode = "hitter"
    /\ grades = <<>>
    /\ grades' = <<calculate_scouting_grade(graded_rows[1]),
                   calculate_scouting_grade(graded_rows[2])>>
    /\ UNCHANGED <<grade_mode, graded_rows, notGrading>>

NextGrade == GradePitchers \/ GradeHitters

SpecGrade == InitGrade /\ [][NextGrade]_vars

(***************************************************************************)
(* SpecApp: a user session of the Streamlit app.                           *)
(***************************************************************************)
InitApp ==
    /\ ArchetypeIdle
    /\ WebsiteIdle
    /\ MapIdle
    /\ BulkIdle
    /\ StatcastIdle
    /\ RadarIdle
    /\ OsmIdle
    /\ ServiceIdle
    /\ ApiIdle
    /\ EtlIdle
    /\ MatchupIdle
    /\ GradingIdle
    /\ AppOpened

LastPage == rendered[Len(rendered)]

\* The interaction ev, with the connection attempt succeeding or not.
Interact(ev, selected, email) ==
    \E db_ok \in BOOLEAN :
        LET r == Interaction(session_state, ev, selected, email, db_ok)
        IN  /\ session_state' = r.ss
            /\ rendered' = r.rendered
            /\ nav_selected' = selected
            \* a widget that is not drawn loses its value
            /\ email_input' = IF r.rendered[Len(r.rendered)] = "payment"
                              THEN email ELSE ""
            /\ UNCHANGED notApp

\* A rerun without a session-state button: auto-refresh, a tab or a page
\* button.
PlainRerun ==
    /\ rendered # <<>>
    /\ Interact("none", nav_selected, email_input)

SelectPage ==
    /\ rendered # <<>>
    /\ \E label \in DOMAIN pages :
           label # nav_selected /\ Interact("none", label, email_input)

ClickLogout ==
    /\ session_state.authenticated
    /\ Interact("logout", nav_selected, email_input)

ClickLoginUpgrade ==
    /\ ~session_state.authenticated
    /\ Interact("login_upgrade", nav_selected, email_input)

ClickHomeUpgrade ==
    /\ LastPage = "home"
    /\ Interact("home_cta", nav_selected, email_input)

ClickGateUpgrade ==
    /\ LastPage = "premium_gate"
    /\ Interact("gate_upgrade", nav_selected, email_input)

SubmitLoginForm ==
    /\ LastPage = "payment"
    /\ \E email \in Emails : Interact("none", nav_selected, email)

ClickGetPremium ==
    /\ LastPage = "payment"
    /\ Interact("get_premium", nav_selected, email_input)

NextApp ==
    \/ PlainRerun
    \/ SelectPage
    \/ ClickLogout
    \/ ClickLoginUpgrade
    \/ ClickHomeUpgrade
    \/ ClickGateUpgrade
    \/ SubmitLoginForm
    \/ ClickGetPremium

SpecApp == InitApp /\ [][NextApp]_vars

(***************************************************************************)
(* Claims about calculate_matchup_edge (SpecEdge)                          *)
(***************************************************************************)
\* Neither the (attack_profile, vertical_profile) pair nor the
\* (matchup_role, two_strike_identity) pair is a key of MATCHUP_MATRIX.
NoCategoricalMatch ==
    /\ <<pitcher.attack_profile, hitter.vertical_profile>>
           \notin DOMAIN MATCHUP_MATRIX.path_geometry
    /\ <<pitcher.matchup_role, hitter.two_strike_identity>>
           \notin DOMAIN MATCHUP_MATRIX.skill_clash

Present(v) == v # NONE /\ v # 0

\* None of the neutrality, platoon or pitch-type threshold rules applies to
\* the pair, stated on the raw inputs.
NoThresholdRuleFires ==
    /\ ~(Present(pitcher.neutrality_pct) /\ pitcher.neutrality_pct > 75)
    /\ ~(Present(hitter.neutrality_pct) /\ hitter.neutrality_pct < 40
         /\ pitcher.hand = hitter.hand /\ pitcher.hand # "")
    /\ ~(Present(pitcher.ffour_usage) /\ pitcher.ffour_usage > 40
         /\ Present(hitter.woba_hard_pct)
         /\ (hitter.woba_hard_pct < 30 \/ hitter.woba_hard_pct > 70))
    /\ ~(Present(pitcher.bb_usage) /\ pitcher.bb_usage > 30
         /\ Present(hitter.woba_break_pct)
         /\ (hitter.woba_break_pct < 30 \/ hitter.woba_break_pct > 70))
    /\ ~(Present(pitcher.offspeed_usage) /\ pitcher.offspeed_usage > 25
         /\ Present(hitter.woba_offspeed_pct)
         /\ (hitter.woba_offspeed_pct < 30 \/ hitter.woba_offspeed_pct > 70))

\* C1 (as stated): for every pair with no categorical match the returned
\* edge score is 0 and the reasons list is empty.
C1_Original ==
    (edge.done /\ NoCategoricalMatch)
        => (edge.edge_score = 0 /\ edge.reasons = <<>>)

\* C1 (amended): for every pair with no categorical match, no reason is a
\* Geometry or Skill Clash reason, and when in addition none of the
\* neutrality, platoon and pitch-type rules applies the edge score is 0 and
\* the reasons list is empty.
C1_NoMatchNoRuleIsZero ==
    (edge.done /\ NoCategoricalMatch)
        => /\ \A i \in 1..Len(edge.reasons) :
                  edge.reasons[i].rule \notin {"Geometry", "Skill Clash"}
           /\ NoThresholdRuleFires
                  => (edge.edge_score = 0 /\ edge.reasons = <<>>)

C1_Witness == edge.done /\ NoCategoricalMatch /\ NoThresholdRuleFires

(***************************************************************************)
(* Claims about predict_game_outcome / optimize_lineup_order (SpecLineup)  *)
(***************************************************************************)
\* C2: over the whole range of mean scores the scorer can give a nine-hitter
\* lineup, the win probability is strictly between 0 and 100, is 50 at a mean
\* score of 0, and is monotone: the smaller of two mean scores never has the
\* greater win probability.
C2_WinProbMonotoneBounded ==
    win_probs.done
        => /\ win_probs.x <= win_probs.y
           /\ win_probs.x > 0 /\ win_probs.x < 1000
           /\ win_probs.y > 0 /\ win_probs.y < 1000
           /\ (mean_scores.x = 0 => win_probs.x = 500)
           /\ (mean_scores.y = 0 => win_probs.y = 500)

C2_Witness ==
    /\ win_probs.done
    /\ mean_scores.x = 0
    /\ win_probs.x = 500
    /\ win_probs.y > 500

\* The sum of the nine combined scores of every lineup lies in SumRange.
LineupSumInRange ==
    (outcome.fn = "predict_game_outcome" /\ outcome.status = "ok")
        => /\ outcome.score_sum \in SumRange
           /\ outcome.win_probability = win_probability(outcome.score_sum)

\* C5: predict_game_outcome and optimize_lineup_order raise ValueError for
\* every lineup whose length is not 9, scoring no matchup and returning no
\* prediction, and raise nothing for a lineup of nine.
C5_OnlyNineHitters ==
    (outcome.fn # "none")
        => /\ (Len(lineup_df) # 9 <=> outcome.status = "ValueError")
           /\ (Len(lineup_df) = 9 <=> outcome.status = "ok")
           /\ (outcome.status = "ValueError"
                  => /\ outcome.lineup_analysis = <<>>
                     /\ outcome.top_threats = <<>>
                     /\ outcome.easy_outs = <<>>)
           /\ (outcome.status = "ok" => Len(outcome.lineup_analysis) = 9)

C5_Witness ==
    /\ outcome.fn = "predict_game_outcome"
    /\ Len(lineup_df) = 8
    /\ outcome.status = "ValueError"

(***************************************************************************)
(* Claims about the graders (SpecGrade)                                    *)
(***************************************************************************)
\* The order of the letter grades, best first.
GradeRank(grade) ==
    CASE grade = "A+" -> 5
      [] grade = "A" -> 4
      [] grade = "B" -> 3
      [] grade = "C" -> 2
      [] grade \in {"F", "D/F"} -> 1

\* The band of the score axis that a letter stands for, from the cut-offs
\* (best first) and the letter of the bottom band.
InBand(grade, score, cut, bottom) ==
    CASE grade = "A+" -> score >= cut[1]
      [] grade = "A" -> score >= cut[2] /\ score < cut[1]
      [] grade = "B" -> score >= cut[3] /\ score < cut[2]
      [] grade = "C" -> score >= cut[4] /\ score < cut[3]
      [] grade = bottom -> score < cut[4]
      [] OTHER -> FALSE

Graded == grades # <<>>

CutOffs == IF grade_mode = "pitcher" THEN <<850, 750, 600, 450>>
           ELSE <<24, 15, 6, 0 - 5>>
BottomGrade == IF grade_mode = "pitcher" THEN "F" ELSE "D/F"
Letters == {"A+", "A", "B", "C", BottomGrade}

\* C3: the cut-offs (pitcher 85/75/60/45, hitter 2.4/1.5/0.6/-0.5) partition
\* the adjusted-score axis: every adjusted score lies in exactly one band and
\* gets that band's letter, and a higher score never gets a worse grade than
\* a lower score.
C3_ThresholdsPartition ==
    Graded =>
        /\ \A i \in 1..2 :
              /\ grades[i].grade \in Letters
              /\ \A g \in Letters :
                     (grades[i].grade = g)
                        <=> InBand(g, grades[i].score, CutOffs, BottomGrade)
        /\ (grades[1].score > grades[2].score
               => GradeRank(grades[1].grade) >= GradeRank(grades[2].grade))

C3_Witness ==
    /\ Graded
    /\ grade_mode = "pitcher"
    /\ grades[1].score = 750 /\ grades[1].grade = "A"
    /\ grades[2].score < 750 /\ grades[2].grade = "B"

\* The second row is the first row with the small-sample condition removed.
SameRowLargerSample ==
    IF grade_mode = "pitcher"
    THEN /\ graded_rows[1].total_appearances < 5
         /\ graded_rows[2].total_appearances >= 5
         /\ graded_rows[1].stuff_plus_pct = graded_rows[2].stuff_plus_pct
         /\ graded_rows[1].location_plus_pct = graded_rows[2].location_plus_pct
         /\ graded_rows[1].is_starter = graded_rows[2].is_starter
    ELSE /\ graded_rows[1].total_pitches_faced < 1000
         /\ graded_rows[2].total_pitches_faced >= 1000
         /\ graded_rows[1].combined_scouting_z = graded_rows[2].combined_scouting_z

\* C4: a row graded with the small-sample condition true (pitcher fewer than
\* 5 appearances, hitter fewer than 500 or fewer than 1000 pitches) has a
\* score not above, and a grade not better than, the same row graded with the
\* condition false.
C4_PenaltyOnlyReduces ==
    (Graded /\ SameRowLargerSample)
        => /\ grades[1].score <= grades[2].score
           /\ GradeRank(grades[1].grade) <= GradeRank(grades[2].grade)

C4_Witness ==
    /\ Graded /\ SameRowLargerSample
    /\ grade_mode = "pitcher"
    /\ grades[1].score < grades[2].score
    /\ GradeRank(grades[1].grade) < GradeRank(grades[2].grade)

\* The weighted combination of the two inputs that the grader starts from.
CombinedScore(row) ==
    IF grade_mode = "pitcher"
    THEN 6 * row.stuff_plus_pct + 4 * row.location_plus_pct
    ELSE row.combined_scouting_z

\* The adjustments that the grader applies on top of the combined score.
SameAdjustments ==
    IF grade_mode = "pitcher"
    THEN /\ graded_rows[1].is_starter = graded_rows[2].is_starter
         /\ (graded_rows[1].total_appearances < 5)
                <=> (graded_rows[2].total_appearances < 5)
    ELSE /\ (graded_rows[1].total_pitches_faced < 500)
                <=> (graded_rows[2].total_pitches_faced < 500)
         /\ (graded_rows[1].total_pitches_faced < 1000)
                <=> (graded_rows[2].total_pitches_faced < 1000)

\* C7 (as stated): two rows with the same weighted combination of their two
\* inputs receive the same letter grade.
C7_Original ==
    (Graded /\ CombinedScore(graded_rows[1]) = CombinedScore(graded_rows[2]))
        => grades[1].grade = grades[2].grade

\* C7 (amended): two rows with the same weighted combination, the same
\* starter flag and the same sample-size class receive the same letter grade.
C7_GradeFunctionOfAdjustedScore ==
    (Graded /\ CombinedScore(graded_rows[1]) = CombinedScore(graded_rows[2])
            /\ SameAdjustments)
        => grades[1].grade = grades[2].grade

C7_Witness ==
    /\ Graded /\ grade_mode = "pitcher"
    /\ CombinedScore(graded_rows[1]) = CombinedScore(graded_rows[2])
    /\ SameAdjustments
    /\ graded_rows[1].stuff_plus_pct # graded_rows[2].stuff_plus_pct
    /\ grades[1].grade = "B"

(***************************************************************************)
(* Claims about the Streamlit app (SpecApp)                                *)
(***************************************************************************)
PremiumPages == {"predictions", "comparisons"}

\* C6: in every session state reached by any sequence of sidebar and button
\* actions, a predictions or comparisons page is drawn only while
\* session_state.authenticated is True, and when one of them is the routed
\* page and authenticated is False the premium gate is drawn instead.
C6_PremiumGated ==
    /\ \A i \in 1..Len(rendered) :
           rendered[i] \in PremiumPages => session_state.authenticated
    /\ (session_state.selected_page \in PremiumPages /\ ~session_state.authenticated)
           => LastPage = "premium_gate"

C6_Witness ==
    /\ rendered = <<"nothing", "premium_gate">>
    /\ ~session_state.authenticated
    /\ session_state.selected_page = "predictions"
    /\ session_state.user_email = "None"

(***************************************************************************)
(* SpecEtl: the archetype ETL, create_dim_pitcher_archetypes and           *)
(* create_dim_hitter_archetypes, run any number of times while the fact    *)
(* tables change between runs.                                             *)
(***************************************************************************)
Players == {"p1", "p2"}
MaxRuns == 4

\* update_dim_*_archetypes: one row per player the extraction query returns.
update_dim_archetypes(source) == {[player |-> p] : p \in source}

\* df['calculation_date'] = datetime.now()
StampRows(df, now) ==
    {[player |-> r.player, calculation_date |-> now] : r \in df}

to_sql_Append(table, df) == table \cup df
\* DataFrame.to_sql(..., if_exists='replace'): the table is dropped and
\* created again from the frame.
to_sql(table, df) == df

\* The body of create_dim_*_archetypes, all of it inside try/except.
\* failure: "none", "extraction" (read_sql or the clustering raises) or
\* "loading" (to_sql raises before anything is written).  The clustering
\* raises on a frame without rows.
create_dim_archetypes(run, table, source, now, failure) ==
    LET df == StampRows(update_dim_archetypes(source), now)
        failed == [table |-> table, loaded |-> FALSE, df |-> {},
                   log |-> [run |-> run, status |-> "failed", rows |-> 0]]
    IN  IF failure = "extraction" \/ source = {} THEN failed
        ELSE IF failure = "loading" THEN failed
        ELSE [table |-> to_sql(table, df), loaded |-> TRUE, df |-> df,
              log |-> [run |-> run, status |-> "ok", rows |-> Cardinality(df)]]

Failures == {"none", "extraction", "loading"}

InitEtl ==
    /\ ArchetypeIdle
    /\ WebsiteIdle
    /\ MapIdle
    /\ BulkIdle
    /\ StatcastIdle
    /\ RadarIdle
    /\ OsmIdle
    /\ ServiceIdle
    /\ ApiIdle
    /\ MatchupIdle
    /\ GradingIdle
    /\ AppOpened
    /\ EtlIdle

Loaded(r, now, before) ==
    IF r.loaded THEN [rows |-> r.df, calculation_date |-> now] ELSE before

CreateDimPitcherArchetypes ==
    /\ clock < MaxRuns
    /\ \E failure \in Failures :
           LET r == create_dim_archetypes("pitcher", dim_pitcher_archetypes,
                                          fact_pitchers, clock, failure)
           IN  /\ dim_pitcher_archetypes' = r.table
               /\ etl_log' = r.log
               /\ last_loaded' = [last_loaded EXCEPT
                                     !.pitcher = Loaded(r, clock, @)]
    /\ clock' = clock + 1
    /\ UNCHANGED <<dim_hitter_archetypes, fact_pitchers, fact_hitters, notEtl>>

CreateDimHitterArchetypes ==
    /\ clock < MaxRuns
    /\ \E failure \in Failures :
           LET r == create_dim_archetypes("hitter", dim_hitter_archetypes,
                                          fact_hitters, clock, failure)
           IN  /\ dim_hitter_archetypes' = r.table
               /\ etl_log' = r.log
               /\ last_loaded' = [last_loaded EXCEPT
                                     !.hitter = Loaded(r, clock, @)]
    /\ clock' = clock + 1
    /\ UNCHANGED <<dim_pitcher_archetypes, fact_pitchers, fact_hitters, notEtl>>

\* Between runs the fact tables are reloaded: other players pass the
\* HAVING COUNT(*) filters of the extraction queries.
StatcastUpdated ==
    /\ \E ps \in SUBSET Players, hs \in SUBSET Players :
           /\ <<ps, hs>> # <<fact_pitchers, fact_hitters>>
           /\ fact_pitchers' = ps
           /\ fact_hitters' = hs
    /\ UNCHANGED <<dim_pitcher_archetypes, dim_hitter_archetypes, clock,
                   etl_log, last_loaded, notEtl>>

NextEtl ==
    \/ CreateDimPitcherArchetypes
    \/ CreateDimHitterArchetypes
    \/ StatcastUpdated

SpecEtl == InitEtl /\ [][NextEtl]_vars

(***************************************************************************)
(* Claims about the archetype ETL (SpecEtl)                                *)
(***************************************************************************)
HoldsLastRun(table, frame) ==
    /\ table = frame.rows
    /\ \A row \in table : row.calculation_date = frame.calculation_date

\* C8: after any sequence of create_dim_pitcher_archetypes and
\* create_dim_hitter_archetypes runs, each archetype table holds exactly the
\* rows the last successful run computed (no row of an earlier run, nothing
\* appended), all carrying that run's calculation_date.
C8_TablesFullyReplaced ==
    /\ HoldsLastRun(dim_pitcher_archetypes, last_loaded.pitcher)
    /\ HoldsLastRun(dim_hitter_archetypes, last_loaded.hitter)

\* A run loaded p1 and p2, a later run loaded p2 alone, and the run after
\* that failed: the table holds the one row of the second run.
C8_Witness ==
    /\ dim_pitcher_archetypes = {[player |-> "p2", calculation_date |-> 2]}
    /\ dim_hitter_archetypes = {[player |-> "p1", calculation_date |-> 0],
                                [player |-> "p2", calculation_date |-> 0]}
    /\ etl_log = [run |-> "pitcher", status |-> "failed", rows |-> 0]
    /\ clock = 4

(***************************************************************************)
(* SpecApi: POST /api/search of the RadarLead Flask app.  A JSON field is  *)
(* "absent" (key missing), "null" (JSON null) or a string; latitude and    *)
(* longitude are NONE (missing or null) or a number.                       *)
(***************************************************************************)
\* data.get(key, ''): the default only replaces a missing key.
DataGet(v) == IF v = "absent" THEN "" ELSE v

\* str.strip() on the strings of the model.
Strip(v) == IF v = " " THEN "" ELSE v

\* An error response; nothing of the success body is present.
ErrorResponse(code, message, searched) ==
    [ status |-> code, body |-> message, external_search |-> searched,
      total_businesses |-> NONE, businesses_without_website |-> NONE,
      search_id |-> NONE ]

\* Python truth of a latitude/longitude value: None and 0 are false.
Truthy(v) == v # NONE /\ v # 0

\* f"Lat: {latitude}, Lng: {longitude}"
LatLngStr(lat, lng) ==
    IF lat = 45 /\ lng = 45 THEN "Lat: 45, Lng: 45" ELSE "Lat: ?, Lng: ?"

\* PlacesService.filter_businesses_without_website
HasNoWebsite(b) == ~b.has_website
filter_businesses_without_website(businesses) ==
    SelectSeq(businesses, HasNoWebsite)

PlaceIds(rows) == {rows[i].place_id : i \in 1..Len(rows)}

\* Business.place_id is unique: the flush of a row whose place_id is already
\* stored raises IntegrityError.
IntegrityError(stored, businesses) ==
    PlaceIds(stored) \cap PlaceIds(businesses) # {}

BusinessRow(search_id, biz) ==
    [ search_query_id |-> search_id, place_id |-> biz.place_id,
      has_website |-> biz.has_website ]

BusinessRows(search_id, businesses) ==
    [i \in 1..Len(businesses) |-> BusinessRow(search_id, businesses[i])]

\* Lines 128-175: filter, store the search and its businesses, commit and
\* answer; any exception rolls the session back and answers 500.
StoreAndAnswer(sq, biz, business_type, location_str, search_type, lat, lng, businesses) ==
    LET without == filter_businesses_without_website(businesses)
        row == [ id |-> Len(sq) + 1,
                 business_type |-> business_type,
                 location |-> location_str,
                 search_type |-> search_type,
                 latitude |-> IF Truthy(lat) THEN lat ELSE NONE,
                 longitude |-> IF Truthy(lng) THEN lng ELSE NONE,
                 results_count |-> Len(businesses),
                 businesses_without_website |-> Len(without) ]
    IN  IF IntegrityError(biz, businesses)
        THEN [ response |-> ErrorResponse(500, "IntegrityError", TRUE),
               search_query |-> sq, business |-> biz ]
        ELSE [ response |->
                   [ status |-> 200, body |-> "success", external_search |-> TRUE,
                     total_businesses |-> Len(businesses),
                     businesses_without_website |-> Len(without),
                     search_id |-> row.id ],
               search_query |-> Append(sq, row),
               business |-> biz \o BusinessRows(row.id, businesses) ]

Rejected(sq, biz, code, message) ==
    [ response |-> ErrorResponse(code, message, FALSE),
      search_query |-> sq, business |-> biz ]

\* search_businesses(): req is request.json, found what the places service
\* call does when it is made (it raises, or returns a list of businesses).
search_businesses(ps, sq, biz, req, found) ==
    IF ~ps THEN Rejected(sq, biz, 500, "Google Places API key not configured")
    ELSE IF req.business_type = "null" \/ req.location = "null"
    THEN \* None.strip(): AttributeError outside the try block
         Rejected(sq, biz, 500, "Internal Server Error")
    ELSE
    LET business_type == Strip(DataGet(req.business_type))
        location == Strip(DataGet(req.location))
        search_type == IF req.search_type = "absent" THEN "text" ELSE req.search_type
        latitude == req.latitude
        longitude == req.longitude
    IN  IF business_type = "" THEN Rejected(sq, biz, 400, "Business type is required")
        ELSE IF search_type = "nearby"
        THEN IF ~Truthy(latitude) \/ ~Truthy(longitude)
             THEN Rejected(sq, biz, 400,
                      "Latitude and longitude are required for nearby search")
             ELSE IF found.raises
             THEN [ response |-> ErrorResponse(500, "search failed", TRUE),
                    search_query |-> sq, business |-> biz ]
             ELSE StoreAndAnswer(sq, biz, business_type,
                                 LatLngStr(latitude, longitude), search_type,
                                 latitude, longitude, found.businesses)
        ELSE IF location = ""
             THEN Rejected(sq, biz, 400, "Location is required for text search")
             ELSE IF found.raises
             THEN [ response |-> ErrorResponse(500, "search failed", TRUE),
                    search_query |-> sq, business |-> biz ]
             ELSE StoreAndAnswer(sq, biz, business_type, location, search_type,
                                 latitude, longitude, found.businesses)
\* The (latitude, longitude) pairs a request carries.
Coordinates == {<<NONE, NONE>>, <<0, 45>>, <<45, NONE>>, <<45, 45>>}

Requests ==
    { [ business_type |-> bt, location |-> loc, search_type |-> st,
        latitude |-> c[1], longitude |-> c[2] ] :
      bt \in {"null", "", " ", "cafe"},
      loc \in {"absent", "null", "Paris"},
      st \in {"absent", "text", "nearby"},
      c \in Coordinates }

B1 == [place_id |-> "b1", has_website |-> FALSE]
B2 == [place_id |-> "b2", has_website |-> TRUE]
SearchResults == {<<>>, <<B1>>, <<B2>>, <<B1, B2>>}

ServiceOutcomes ==
    {[raises |-> TRUE, businesses |-> <<>>]}
        \cup {[raises |-> FALSE, businesses |-> b] : b \in SearchResults}

MaxStored == 2

InitApi ==
    /\ ArchetypeIdle
    /\ WebsiteIdle
    /\ MapIdle
    /\ BulkIdle
    /\ StatcastIdle
    /\ RadarIdle
    /\ OsmIdle
    /\ ServiceIdle
    /\ MatchupIdle
    /\ GradingIdle
    /\ AppOpened
    /\ EtlIdle
    /\ places_service \in BOOLEAN
    /\ search_query = <<>>
    /\ business = <<>>
    /\ request = NoRequest
    /\ response = NoResponse

\* The request reaches places_service.search_nearby or search_by_text.
ReachesService(ps, req) ==
    search_businesses(ps, <<>>, <<>>, req,
                      [raises |-> TRUE, businesses |-> <<>>]).response.external_search

PostSearch ==
    /\ Len(search_query) < MaxStored
    /\ \E req \in Requests :
         \E found \in IF ReachesService(places_service, req)
                      THEN ServiceOutcomes
                      ELSE {[raises |-> TRUE, businesses |-> <<>>]} :
           LET r == search_businesses(places_service, search_query, business,
                                      req, found)
           IN  /\ request' = req
               /\ response' = r.response
               /\ search_query' = r.search_query
               /\ business' = r.business
    /\ UNCHANGED <<places_service, notApi>>

NextApi == PostSearch

SpecApi == InitApi /\ [][NextApi]_vars

(***************************************************************************)
(* Claims about POST /api/search (SpecApi)                                 *)
(***************************************************************************)
\* A field that carries no text: missing, null, empty or blank.
Empty(v) == v \in {"absent", "null", "", " "}

\* The status the claim gives for an invalid request, 0 for a valid one.
ExpectedStatus(ps, req) ==
    IF ~ps THEN 500
    ELSE IF Empty(req.business_type) THEN 400
    ELSE IF req.search_type = "nearby"
         THEN IF req.latitude = NONE /\ req.longitude = NONE THEN 400 ELSE 0
    ELSE IF Empty(req.location) THEN 400
    ELSE 0

\* C9: POST /api/search rejects invalid requests without side effects: a
\* missing places service gives 500, an empty business_type 400, a nearby
\* search without latitude and longitude 400, a text search without location
\* 400, and in each case no external search is issued and no SearchQuery or
\* Business row is stored.
C9_Original ==
    [][ExpectedStatus(places_service, request') # 0
           => /\ response'.status = ExpectedStatus(places_service, request')
              /\ ~response'.external_search
              /\ UNCHANGED <<search_query, business>>]_vars

(***************************************************************************)
(* SpecService: one call of a RadarLead service method (PlacesService,     *)
(* OSMService) or of an archetype ETL load.  The call record fixes what    *)
(* each external request answers; the method is then run against it.       *)
(***************************************************************************)
\* What a method call produced.  none: the method returned None.
Returned(value, printed, requests) ==
    [ done |-> TRUE, raised |-> FALSE, none |-> FALSE, value |-> value,
      printed |-> printed, requests |-> requests ]
ReturnedNone(printed, requests) ==
    [ done |-> TRUE, raised |-> FALSE, none |-> TRUE, value |-> <<>>,
      printed |-> printed, requests |-> requests ]
Raised(printed, requests) ==
    [ done |-> TRUE, raised |-> TRUE, none |-> FALSE, value |-> <<>>,
      printed |-> printed, requests |-> requests ]

get_place_details_Propagates(place_id, detail) ==
    IF detail = "raises"
    THEN Raised(<<"Error getting place details">>, <<"details">>)
    ELSE ReturnedNone(<<>>, <<"details">>)
\* PlacesService.get_place_details.  detail is what the details request does:
\* "raises" (network error or HTTP error status), "not_ok" (status != 'OK'),
\* "site" or "nosite" (an OK result with or without a website).
get_place_details(place_id, detail) ==
    IF detail = "raises"
    THEN ReturnedNone(<<"Error getting place details">>, <<"details">>)
    ELSE IF detail = "not_ok"
    THEN ReturnedNone(<<>>, <<"details">>)
    ELSE Returned(<<[ place_id |-> place_id,
                      website |-> IF detail = "site" THEN "http://site" ELSE "",
                      has_website |-> detail = "site" ]>>,
                  <<>>, <<"details">>)

\* PlacesService._geocode.  geo is what the geocoding request does: "raises",
\* "not_found" (status not OK or no results) or "found".
places_geocode(address, geo) ==
    IF geo = "found"
    THEN Returned(<<[lat |-> 45, lng |-> 45]>>, <<>>, <<"geocode">>)
    ELSE ReturnedNone(<<>>, <<"geocode">>)

\* The for loop over data['results'] (lines 64-71, 125-132): a place is
\* looked up unless max_results businesses are collected; a lookup that
\* returns None adds nothing.  acc: businesses, printed and requests so far.
RECURSIVE CollectDetails(_, _, _, _, _)
CollectDetails(results, j, details, max_results, acc) ==
    IF j > Len(results) \/ Len(acc.businesses) >= max_results THEN acc
    ELSE LET d == get_place_details(results[j], details[results[j]])
         IN  CollectDetails(results, j + 1, details, max_results,
                 [ businesses |-> acc.businesses \o d.value,
                   printed |-> acc.printed \o d.printed,
                   requests |-> acc.requests \o d.requests ])

\* A listing response is an error: raise_for_status() raises, or the status
\* is neither OK nor ZERO_RESULTS.
PageFails(page) ==
    ~page.http_ok \/ page.status \notin {"OK", "ZERO_RESULTS"}

\* The while loop of search_by_text / search_nearby with its try/except
\* (lines 50-85, 111-144), entered with len(businesses) < max_results and
\* about to request page i.  An exception is printed and raised again.
RECURSIVE SearchPages(_, _, _, _, _, _)
SearchPages(method, listing, i, details, max_results, acc) ==
    LET requests == Append(acc.requests, method)
        page == listing[i]
    IN  IF PageFails(page)
        THEN Raised(Append(acc.printed, "Error in " \o method), requests)
        ELSE LET after == CollectDetails(page.results, 1, details, max_results,
                              [acc EXCEPT !.requests = requests])
             IN  IF page.next_page_token /\ Len(after.businesses) < max_results
                 THEN SearchPages(method, listing, i + 1, details, max_results, after)
                 ELSE Returned(after.businesses, after.printed, after.requests)

NothingYet == [businesses |-> <<>>, printed |-> <<>>, requests |-> <<>>]

\* Mutant: one business more than max_results is collected.
PlacesSearch_OneMore(method, listing, details, max_results, acc) ==
    SearchPages(method, listing, 1, details, max_results + 1, acc)

PlacesSearch(method, listing, details, max_results, acc) ==
    IF Len(acc.businesses) < max_results
    THEN SearchPages(method, listing, 1, details, max_results, acc)
    ELSE Returned(acc.businesses, acc.printed, acc.requests)

\* PlacesService.search_by_text: a location is geocoded first, outside the
\* try block; _geocode swallows every exception.
search_by_text(location, geo, listing, details, max_results) ==
    LET g == IF location # "" THEN places_geocode(location, geo)
             ELSE ReturnedNone(<<>>, <<>>)
    IN  PlacesSearch("search_by_text", listing, details, max_results,
                     [NothingYet EXCEPT !.requests = g.requests])

\* PlacesService.search_nearby
search_nearby(listing, details, max_results) ==
    PlacesSearch("search_nearby", listing, details, max_results, NothingYet)

\* OSMService.geocode (Nominatim).  geo: "raises", "not_found" (empty
\* answer), "found" (the city matches) or "unmatched" (it does not).
osm_geocode(address, geo) ==
    IF geo = "raises"
    THEN ReturnedNone(<<"Geocoding error">>, <<"nominatim">>)
    ELSE IF geo = "not_found"
    THEN ReturnedNone(<<>>, <<"nominatim">>)
    ELSE Returned(<<[lat |-> 45, lng |-> 45, matched |-> geo = "found"]>>,
                  <<>>, <<"nominatim">>)

\* Business types are named by the text the user typed; Spelling gives the
\* characters of each, on which lower(), strip() and `in` work.
Spelling ==
    ("hotel" :> <<"h", "o", "t", "e", "l">>)
      @@ ("zzz" :> <<"z", "z", "z">>)
      @@ ("" :> <<>>)
      @@ ("Luxury Hotel " :> <<"L", "u", "x", "u", "r", "y", " ", "H", "o", "t", "e", "l", " ">>)
      @@ ("barber" :> <<"b", "a", "r", "b", "e", "r">>)
      @@ ("dentist" :> <<"d", "e", "n", "t", "i", "s", "t">>)
      @@ ("gas station" :> <<"g", "a", "s", " ", "s", "t", "a", "t", "i", "o", "n">>)
      @@ ("rest" :> <<"r", "e", "s", "t">>)

LowerCase ==
    ("A" :> "a") @@ ("B" :> "b") @@ ("C" :> "c") @@ ("D" :> "d") @@ ("E" :> "e") @@ ("F" :> "f")
      @@ ("G" :> "g") @@ ("H" :> "h") @@ ("I" :> "i") @@ ("J" :> "j") @@ ("K" :> "k") @@ ("L" :> "l")
      @@ ("M" :> "m") @@ ("N" :> "n") @@ ("O" :> "o") @@ ("P" :> "p") @@ ("Q" :> "q") @@ ("R" :> "r")
      @@ ("S" :> "s") @@ ("T" :> "t") @@ ("U" :> "u") @@ ("V" :> "v") @@ ("W" :> "w") @@ ("X" :> "x")
      @@ ("Y" :> "y") @@ ("Z" :> "z")

\* str.lower()
Lower(str) == [i \in 1..Len(str) |-> IF str[i] \in DOMAIN LowerCase THEN LowerCase[str[i]] ELSE str[i]]

\* str.strip(): leading and trailing blanks removed.
RECURSIVE StripBlanks(_)
StripBlanks(str) ==
    IF str = <<>> THEN str
    ELSE IF Head(str) = " " THEN StripBlanks(Tail(str))
    ELSE IF str[Len(str)] = " " THEN StripBlanks(SubSeq(str, 1, Len(str) - 1))
    ELSE str

\* `a in b` on strings: a is a substring of b (the empty string is one).
SubstringOf(a, b) ==
    \E start \in 1..(Len(b) - Len(a) + 1) : SubSeq(b, start, start + Len(a) - 1) = a

\* The mappings dictionary of _get_osm_tags, in insertion order.
mappings ==
    << [ key |-> <<"h", "o", "t", "e", "l">>,
         tags |-> [amenity |-> "|", shop |-> "|", tourism |-> "hotel"] ],
       [ key |-> <<"h", "o", "t", "e", "l", "s">>,
         tags |-> [amenity |-> "|", shop |-> "|", tourism |-> "hotel"] ],
       [ key |-> <<"p", "l", "u", "m", "b", "e", "r">>,
         tags |-> [amenity |-> "|", shop |-> "plumber", tourism |-> "|"] ],
       [ key |-> <<"p", "l", "u", "m", "b", "e", "r", "s">>,
         tags |-> [amenity |-> "|", shop |-> "plumber", tourism |-> "|"] ],
       [ key |-> <<"r", "e", "s", "t", "a", "u", "r", "a", "n", "t">>,
         tags |-> [amenity |-> "restaurant", shop |-> "|", tourism |-> "|"] ],
       [ key |-> <<"r", "e", "s", "t", "a", "u", "r", "a", "n", "t", "s">>,
         tags |-> [amenity |-> "restaurant", shop |-> "|", tourism |-> "|"] ],
       [ key |-> <<"c", "a", "f", "e">>,
         tags |-> [amenity |-> "cafe", shop |-> "|", tourism |-> "|"] ],
       [ key |-> <<"c", "a", "f", "e", "s">>,
         tags |-> [amenity |-> "cafe", shop |-> "|", tourism |-> "|"] ],
       [ key |-> <<"c", "o", "f", "f", "e", "e">>,
         tags |-> [amenity |-> "cafe", shop |-> "|", tourism |-> "|"] ],
       [ key |-> <<"b", "a", "r">>,
         tags |-> [amenity |-> "bar", shop |-> "|", tourism |-> "|"] ],
       [ key |-> <<"b", "a", "r", "s">>,
         tags |-> [amenity |-> "bar", shop |-> "|", tourism |-> "|"] ],
       [ key |-> <<"p", "h", "a", "r", "m", "a", "c", "y">>,
         tags |-> [amenity |-> "pharmacy", shop |-> "pharmacy", tourism |-> "|"] ],
       [ key |-> <<"p", "h", "a", "r", "m", "a", "c", "i", "e", "s">>,
         tags |-> [amenity |-> "pharmacy", shop |-> "pharmacy", tourism |-> "|"] ],
       [ key |-> <<"s", "u", "p", "e", "r", "m", "a", "r", "k", "e", "t">>,
         tags |-> [amenity |-> "|", shop |-> "supermarket", tourism |-> "|"] ],
       [ key |-> <<"s", "u", "p", "e", "r", "m", "a", "r", "k", "e", "t", "s">>,
         tags |-> [amenity |-> "|", shop |-> "supermarket", tourism |-> "|"] ],
       [ key |-> <<"g", "a", "s">>,
         tags |-> [amenity |-> "fuel", shop |-> "|", tourism |-> "|"] ],
       [ key |-> <<"g", "a", "s", " ", "s", "t", "a", "t", "i", "o", "n">>,
         tags |-> [amenity |-> "fuel", shop |-> "|", tourism |-> "|"] ],
       [ key |-> <<"g", "a", "s", " ", "s", "t", "a", "t", "i", "o", "n", "s">>,
         tags |-> [amenity |-> "fuel", shop |-> "|", tourism |-> "|"] ],
       [ key |-> <<"f", "u", "e", "l">>,
         tags |-> [amenity |-> "fuel", shop |-> "|", tourism |-> "|"] ],
       [ key |-> <<"c", "a", "r", " ", "d", "e", "a", "l", "e", "r">>,
         tags |-> [amenity |-> "|", shop |-> "car", tourism |-> "|"] ],
       [ key |-> <<"c", "a", "r", " ", "d", "e", "a", "l", "e", "r", "s", "h", "i", "p">>,
         tags |-> [amenity |-> "|", shop |-> "car", tourism |-> "|"] ],
       [ key |-> <<"c", "a", "r">>,
         tags |-> [amenity |-> "|", shop |-> "car", tourism |-> "|"] ],
       [ key |-> <<"g", "r", "o", "c", "e", "r", "y">>,
         tags |-> [amenity |-> "|", shop |-> "supermarket", tourism |-> "|"] ],
       [ key |-> <<"g", "r", "o", "c", "e", "r", "y", " ", "s", "t", "o", "r", "e">>,
         tags |-> [amenity |-> "|", shop |-> "supermarket", tourism |-> "|"] ] >>

NoTags == [amenity |-> "|", shop |-> "|", tourism |-> "|"]

\* The loop `for key, tags in mappings.items()` from entry k on.
RECURSIVE PartialMatch(_, _)
PartialMatch(business_type_lower, k) ==
    IF k > Len(mappings) THEN NoTags
    ELSE IF SubstringOf(mappings[k].key, business_type_lower)
            \/ SubstringOf(business_type_lower, mappings[k].key)
         THEN mappings[k].tags
         ELSE PartialMatch(business_type_lower, k + 1)

\* Mutant: an unknown type searches every amenity.
get_osm_tags_Everything(business_type) ==
    LET business_type_lower == StripBlanks(Lower(Spelling[business_type]))
        found == PartialMatch(business_type_lower, 1)
    IN  IF found = NoTags THEN [NoTags EXCEPT !.amenity = ".*"] ELSE found

\* OSMService._get_osm_tags: an exact match first, then the first key that
\* contains the type or is contained in it, else no tag at all.
get_osm_tags(business_type) ==
    LET business_type_lower == StripBlanks(Lower(Spelling[business_type]))
        exact == {k \in 1..Len(mappings) : mappings[k].key = business_type_lower}
    IN  IF exact # {} THEN mappings[CHOOSE k \in exact : TRUE].tags
        ELSE PartialMatch(business_type_lower, 1)

\* The elements of an Overpass answer: a node with a website, a way with a
\* centre and no website, a way without centre.
OverpassElements ==
    << [type |-> "node", center |-> FALSE, id |-> 1, website |-> "http://site"],
       [type |-> "way", center |-> TRUE, id |-> 2, website |-> ""],
       [type |-> "way", center |-> FALSE, id |-> 3, website |-> ""] >>

Located(element) == element.type = "node" \/ (element.type = "way" /\ element.center)

OsmBusiness(element) ==
    [ osm_id |-> element.id, osm_type |-> element.type,
      website |-> element.website, has_website |-> element.website # "" ]

RECURSIVE OsmBusinesses(_)
OsmBusinesses(elements) ==
    IF elements = <<>> THEN <<>>
    ELSE (IF Located(Head(elements)) THEN <<OsmBusiness(Head(elements))>> ELSE <<>>)
             \o OsmBusinesses(Tail(elements))

\* OSMService.search_businesses_nearby.  overpass: "raises", "no_elements"
\* or "elements".  An exception is printed and raised again.
search_businesses_nearby(business_type, overpass, acc) ==
    LET business_tags == get_osm_tags(business_type)
        query_parts == {k \in {"amenity", "shop", "tourism"} : business_tags[k] # "|"}
        requests == Append(acc.requests, "overpass")
    IN  IF query_parts = {} THEN Returned(<<>>, acc.printed, acc.requests)
        ELSE IF overpass = "raises"
        THEN Raised(Append(acc.printed, "Overpass API error"), requests)
        ELSE IF overpass = "no_elements"
        THEN Returned(<<>>, acc.printed, requests)
        ELSE Returned(OsmBusinesses(OverpassElements), acc.printed, requests)

\* OSMService.search_businesses_by_location
search_businesses_by_location(location, geo, business_type, overpass) ==
    LET g == osm_geocode(location, geo)
    IN  IF g.none THEN Returned(<<>>, g.printed, g.requests)
        ELSE search_businesses_nearby(business_type, overpass,
                 [ businesses |-> <<>>,
                   printed |-> IF g.value[1].matched THEN g.printed
                               ELSE g.printed \o <<"Geocoding warning", "Found">>,
                   requests |-> g.requests ])

\* create_dim_pitcher_archetypes / create_dim_hitter_archetypes seen as a
\* call: what it prints and whether anything leaves the try/except.
etl_load(run, failure) ==
    LET r == create_dim_archetypes(run, {}, Players, 0, failure)
    IN  ReturnedNone(<<"Creating dim archetypes",
                       IF r.loaded THEN "Successfully added rows"
                       ELSE "ETL Failed during extraction or loading">>,
                     IF failure = "extraction" THEN <<"read_sql">>
                     ELSE <<"read_sql", "to_sql">>)

\* What the external services answer in the calls of the model.
PlaceNames == {"a", "b", "c"}
DetailOutcomes == {"site", "nosite", "not_ok", "raises"}
DetailMaps == [PlaceNames -> DetailOutcomes]

Page(ok, status, results, token) ==
    [http_ok |-> ok, status |-> status, results |-> results, next_page_token |-> token]

HttpError == Page(FALSE, "OK", <<>>, FALSE)
ApiError == Page(TRUE, "OVER_QUERY_LIMIT", <<>>, FALSE)
ZeroResults == Page(TRUE, "ZERO_RESULTS", <<>>, FALSE)

\* A listing of one or two pages; the last page carries no next_page_token.
LastFirstPages ==
    {HttpError, ApiError, ZeroResults,
     Page(TRUE, "OK", <<"a">>, FALSE), Page(TRUE, "OK", <<"a", "b">>, FALSE)}
MoreFirstPages ==
    {Page(TRUE, "OK", <<"a">>, TRUE), Page(TRUE, "OK", <<"a", "b">>, TRUE)}
SecondPages ==
    {HttpError, ApiError, ZeroResults, Page(TRUE, "OK", <<"c">>, FALSE)}
Listings ==
    {<<p>> : p \in LastFirstPages}
        \cup {<<p, q>> : p \in MoreFirstPages, q \in SecondPages}

MaxResults == 2

Call(method, location, geo, listing, details, max_results, business_type, overpass, failure) ==
    [ method |-> method, location |-> location, geocode |-> geo,
      pages |-> listing, details |-> details, max_results |-> max_results,
      business_type |-> business_type, overpass |-> overpass,
      failure |-> failure ]

GeoOutcomes == {"raises", "not_found", "found"}
OsmGeoOutcomes == {"raises", "not_found", "found", "unmatched"}
OverpassOutcomes == {"raises", "no_elements", "elements"}
BusinessTypes == DOMAIN Spelling

ServiceCalls ==
    {Call("search_by_text", "", "not_found", l, d, m, "", "no_elements", "none") :
        l \in Listings, d \in DetailMaps, m \in 0..MaxResults}
    \cup
    {Call("search_by_text", "Paris", g, l, d, m, "", "no_elements", "none") :
        g \in GeoOutcomes, l \in Listings, d \in DetailMaps, m \in 0..MaxResults}
    \cup
    {Call("search_nearby", "", "not_found", l, d, m, "", "no_elements", "none") :
        l \in Listings, d \in DetailMaps, m \in 0..MaxResults}
    \cup
    {Call("get_place_details", "", "not_found", <<>>, [p \in PlaceNames |-> o], 0,
          "", "no_elements", "none") : o \in DetailOutcomes}
    \cup
    {Call("_geocode", "Paris", g, <<>>, NoCall.details, 0, "", "no_elements", "none") :
        g \in GeoOutcomes}
    \cup
    {Call("geocode", "Paris", g, <<>>, NoCall.details, 0, "", "no_elements", "none") :
        g \in OsmGeoOutcomes}
    \cup
    {Call("search_businesses_nearby", "", "not_found", <<>>, NoCall.details, 0,
          t, o, "none") : t \in BusinessTypes, o \in OverpassOutcomes}
    \cup
    {Call("search_businesses_by_location", "Paris", g, <<>>, NoCall.details, 0,
          t, o, "none") :
        g \in OsmGeoOutcomes, t \in BusinessTypes, o \in OverpassOutcomes}
    \cup
    {Call(m, "", "not_found", <<>>, NoCall.details, 0, "", "no_elements", f) :
        m \in {"create_dim_pitcher_archetypes", "create_dim_hitter_archetypes"},
        f \in Failures}

InitService ==
    /\ ArchetypeIdle
    /\ WebsiteIdle
    /\ MapIdle
    /\ BulkIdle
    /\ StatcastIdle
    /\ RadarIdle
    /\ OsmIdle
    /\ MatchupIdle
    /\ GradingIdle
    /\ AppOpened
    /\ EtlIdle
    /\ ApiIdle
    /\ svc_call \in ServiceCalls
    /\ svc_result = NoResult

\* The call ends with the given result.
Ends(result) ==
    /\ ~svc_result.done
    /\ svc_result' = result
    /\ UNCHANGED <<svc_call, notService>>

SearchByText ==
    /\ svc_call.method = "search_by_text"
    /\ Ends(search_by_text(svc_call.location, svc_call.geocode, svc_call.pages,
               svc_call.details, svc_call.max_results))

SearchNearby ==
    /\ svc_call.method = "search_nearby"
    /\ Ends(search_nearby(svc_call.pages, svc_call.details, svc_call.max_results))

GetPlaceDetails ==
    /\ svc_call.method = "get_place_details"
    /\ Ends(get_place_details("a", svc_call.details["a"]))

PlacesGeocode ==
    /\ svc_call.method = "_geocode"
    /\ Ends(places_geocode(svc_call.location, svc_call.geocode))

OsmGeocode ==
    /\ svc_call.method = "geocode"
    /\ Ends(osm_geocode(svc_call.location, svc_call.geocode))

OsmSearchNearby ==
    /\ svc_call.method = "search_businesses_nearby"
    /\ Ends(search_businesses_nearby(svc_call.business_type, svc_call.overpass,
               NothingYet))

OsmSearchByLocation ==
    /\ svc_call.method = "search_businesses_by_location"
    /\ Ends(search_businesses_by_location(svc_call.location, svc_call.geocode,
               svc_call.business_type, svc_call.overpass))

EtlLoadPitchers ==
    /\ svc_call.method = "create_dim_pitcher_archetypes"
    /\ Ends(etl_load("pitcher", svc_call.failure))

EtlLoadHitters ==
    /\ svc_call.method = "create_dim_hitter_archetypes"
    /\ Ends(etl_load("hitter", svc_call.failure))

NextService ==
    \/ SearchByText
    \/ SearchNearby
    \/ GetPlaceDetails
    \/ PlacesGeocode
    \/ OsmGeocode
    \/ OsmSearchNearby
    \/ OsmSearchByLocation
    \/ EtlLoadPitchers
    \/ EtlLoadHitters

SpecService == InitService /\ [][NextService]_vars

(***************************************************************************)
(* Claims about the service methods (SpecService)                          *)
(***************************************************************************)
CountOf(seq, x) == Cardinality({i \in 1..Len(seq) : seq[i] = x})
Printed(message) == \E i \in 1..Len(svc_result.printed) : svc_result.printed[i] = message

\* The listing request last sent for svc_call failed.
ListingFailed ==
    LET n == CountOf(svc_result.requests, svc_call.method)
    IN  n >= 1 /\ PageFails(svc_call.pages[n])

\* The places of the listing pages received, in order.
RECURSIVE AllResults(_)
AllResults(listing) ==
    IF listing = <<>> \/ PageFails(Head(listing)) THEN <<>>
    ELSE Head(listing).results \o AllResults(Tail(listing))

\* The places whose details were requested, and those whose request raised.
LookedUp ==
    {AllResults(svc_call.pages)[i] : i \in 1..CountOf(svc_result.requests, "details")}
DetailRaised == \E p \in LookedUp : svc_call.details[p] = "raises"

PlacesSearches == {"search_by_text", "search_nearby"}
OsmSearches == {"search_businesses_nearby", "search_businesses_by_location"}
EtlLoads == {"create_dim_pitcher_archetypes", "create_dim_hitter_archetypes"}

\* Some external request made for svc_call failed.
ExternalFailure ==
    \/ svc_call.method \in PlacesSearches
           /\ (ListingFailed \/ DetailRaised
                  \/ (CountOf(svc_result.requests, "geocode") = 1
                         /\ svc_call.geocode = "raises"))
    \/ svc_call.method = "get_place_details" /\ svc_call.details["a"] = "raises"
    \/ svc_call.method \in {"_geocode", "geocode"} /\ svc_call.geocode = "raises"
    \/ svc_call.method \in OsmSearches
           /\ \/ CountOf(svc_result.requests, "nominatim") = 1
                     /\ svc_call.geocode = "raises"
              \/ CountOf(svc_result.requests, "overpass") = 1
                     /\ svc_call.overpass = "raises"
    \/ svc_call.method \in EtlLoads /\ svc_call.failure # "none"

PRise ==
    [ full_name |-> "Rise", overall_grade |-> "C",
      attack_profile |-> "NORTH-SOUTH (High Rise)", matchup_role |-> "ROTATION STABILIZER",
      neutrality_pct |-> 50, hand |-> "R",
      ffour_usage |-> 30, bb_usage |-> 20, offspeed_usage |-> 10 ]

PitcherGrades == {"A+", "A", "B", "C", "F", "absent"}
HitterGrades == {"A+", "A", "B", "C", "D/F", "absent"}

MatchupPitchers ==
    {[p EXCEPT !.overall_grade = g] : p \in {PNeutral, PAce, PRise}, g \in PitcherGrades}
MatchupHitters ==
    {[h EXCEPT !.overall_grade = g] : h \in {HNeutral, HStar, HWeak}, g \in HitterGrades}

InitMatchup ==
    /\ ArchetypeIdle
    /\ WebsiteIdle
    /\ MapIdle
    /\ BulkIdle
    /\ StatcastIdle
    /\ RadarIdle
    /\ OsmIdle
    /\ ServiceIdle
    /\ ApiIdle
    /\ EtlIdle
    /\ GradingIdle
    /\ AppOpened
    /\ pitcher \in MatchupPitchers
    /\ hitter \in MatchupHitters
    /\ edge = NoEdge
    /\ lineup_df = <<>>
    /\ outcome = NoOutcome
    /\ mean_scores = [x |-> 0, y |-> 0]
    /\ win_probs = NoProbs
    /\ matchup = NoMatchup

PredictIndividualMatchup ==
    /\ ~matchup.done
    /\ matchup' = [done |-> TRUE] @@ predict_individual_matchup(pitcher, hitter)
    /\ UNCHANGED <<pitcher, hitter, edge, lineup_df, outcome, mean_scores, win_probs, notMatchup>>

NextMatchup == PredictIndividualMatchup

SpecMatchup == InitMatchup /\ [][NextMatchup]_vars

(***************************************************************************)
(* Claims about predict_individual_matchup (SpecMatchup)                   *)
(***************************************************************************)
\* The value of a letter grade: A+ 5, A 4, B 3, C 2, D/F 1, any other letter
\* 3, a missing grade that of C.
GradeValue(grade) ==
    CASE grade = "A+" -> 5
      [] grade = "A" -> 4
      [] grade = "B" -> 3
      [] grade \in {"C", "absent"} -> 2
      [] grade = "D/F" -> 1
      [] OTHER -> 3

\* C11: predict_individual_matchup returns combined_score = 1.5 * talent_gap
\* + edge_score (in tenths: 15 * talent_gap + edge_score), talent_gap is the
\* pitcher's grade value minus the hitter's, and hitter_advantage is True
\* exactly when combined_score < 0, so a score of exactly 0 counts for the
\* pitcher.
C11_CombinedScoreAndAdvantage ==
    matchup.done
        => /\ matchup.talent_gap
                  = GradeValue(pitcher.overall_grade) - GradeValue(hitter.overall_grade)
           /\ matchup.edge_score = calculate_matchup_edge(pitcher, hitter).edge_score
           /\ matchup.combined_score = 15 * matchup.talent_gap + matchup.edge_score
           /\ matchup.hitter_advantage <=> matchup.combined_score < 0

\* A two-grade deficit of the pitcher cancelled by a geometry and a platoon
\* edge: the combined score is exactly 0 and the hitter has no advantage.
C11_Witness ==
    /\ matchup.done
    /\ matchup.talent_gap = 0 - 2
    /\ matchup.edge_score = 30
    /\ matchup.combined_score = 0
    /\ ~matchup.hitter_advantage

(***************************************************************************)
(* Claims about the Places searches (SpecService)                          *)
(***************************************************************************)
\* The number of listing pages svc_call requested.
PagesRequested == CountOf(svc_result.requests, svc_call.method)

\* The places of the first n listing pages, in order.
RECURSIVE ResultsOfPages(_, _)
ResultsOfPages(listing, n) ==
    IF n = 0 THEN <<>>
    ELSE ResultsOfPages(listing, n - 1) \o listing[n].results

\* The details request of the place answers OK.
DetailsOk(place) == svc_call.details[place] \in {"site", "nosite"}

PlaceIdsOf(businesses) == [i \in 1..Len(businesses) |-> businesses[i].place_id]

\* C12: search_by_text and search_nearby return at most max_results
\* businesses; a place whose details request fails or is not OK is skipped
\* and not counted, so the result is the places that answered OK among those
\* looked up, and looking up stops early only at max_results; a further page
\* is requested only when the previous response carried a next_page_token
\* and fewer than max_results businesses were collected.
C12_AtMostMaxResults ==
    (svc_result.done /\ svc_call.method \in PlacesSearches /\ ~svc_result.raised)
        => LET offered == ResultsOfPages(svc_call.pages, PagesRequested)
               asked == CountOf(svc_result.requests, "details")
           IN  /\ Len(svc_result.value) <= svc_call.max_results
               /\ asked <= Len(offered)
               /\ PlaceIdsOf(svc_result.value)
                      = SelectSeq(SubSeq(offered, 1, asked), DetailsOk)
               /\ asked < Len(offered) => Len(svc_result.value) = svc_call.max_results
               /\ \A n \in 2..PagesRequested :
                      /\ svc_call.pages[n - 1].next_page_token
                      /\ Len(SelectSeq(ResultsOfPages(svc_call.pages, n - 1), DetailsOk))
                             < svc_call.max_results

\* Page one offers a and b, the details of a fail, b is counted, and with
\* max_results 2 not reached the second page is requested and adds c.
C12_Witness ==
    /\ svc_result.done
    /\ svc_call.method = "search_nearby"
    /\ svc_call.max_results = 2
    /\ svc_call.details["a"] = "raises"
    /\ PagesRequested = 2
    /\ PlaceIdsOf(svc_result.value) = <<"b", "c">>

(***************************************************************************)
(* SpecOsm: the calls of one OSMService instance in time.  Time runs in    *)
(* tenths of a second; only time.sleep, the HTTP requests and the pauses   *)
(* between calls take time.                                                *)
(***************************************************************************)
MaxTime == 40
MaxLatency == 3
MaxOversleep == 1
MaxPause == 12

\* Mutant: the limiter records the time but never sleeps.
rate_limit_NoSleep(now, last, oversleep) ==
    [now |-> now, last_request_time |-> now]

\* OSMService._rate_limit called at time now: time.sleep pauses for at least
\* the time asked, oversleep more.
rate_limit(now, last, oversleep) ==
    LET time_since_last == now - last
        woke == IF time_since_last < OneSecond
                THEN now + (OneSecond - time_since_last) + oversleep
                ELSE now
    IN  [now |-> woke, last_request_time |-> woke]

InitOsm ==
    /\ ArchetypeIdle
    /\ WebsiteIdle
    /\ MapIdle
    /\ BulkIdle
    /\ StatcastIdle
    /\ RadarIdle
    /\ MatchupIdle
    /\ GradingIdle
    /\ AppOpened
    /\ EtlIdle
    /\ ApiIdle
    /\ ServiceIdle
    /\ osm_now = OneSecond
    /\ last_request_time = 0
    /\ nominatim_prev = NONE
    /\ nominatim_last = NONE

\* geocode(): the limiter, then the Nominatim request, sent when the limiter
\* returns and answered (or failed) latency later.
NominatimRequest(latency, oversleep) ==
    LET r == rate_limit(osm_now, last_request_time, oversleep)
    IN  /\ r.now + latency <= MaxTime
        /\ last_request_time' = r.last_request_time
        /\ nominatim_prev' = nominatim_last
        /\ nominatim_last' = r.now
        /\ osm_now' = r.now + latency

TimedGeocode ==
    /\ \E latency \in 0..MaxLatency, oversleep \in 0..MaxOversleep :
           NominatimRequest(latency, oversleep)
    /\ UNCHANGED notOsm

\* search_businesses_by_location(): geocode, then the Overpass request when
\* the location was found (overpass = 0 when it was not).
TimedSearchByLocation ==
    /\ \E latency \in 0..MaxLatency, overpass \in 0..MaxLatency,
          oversleep \in 0..MaxOversleep :
           NominatimRequest(latency + overpass, oversleep)
    /\ UNCHANGED notOsm

\* search_businesses_nearby(): an Overpass request, no Nominatim request.
TimedSearchNearby ==
    /\ \E overpass \in 0..MaxLatency :
           /\ osm_now + overpass <= MaxTime
           /\ osm_now' = osm_now + overpass
    /\ UNCHANGED <<last_request_time, nominatim_prev, nominatim_last, notOsm>>

\* The user waits before the next search.
TimePasses ==
    /\ \E pause \in 1..MaxPause :
           /\ osm_now + pause <= MaxTime
           /\ osm_now' = osm_now + pause
    /\ UNCHANGED <<last_request_time, nominatim_prev, nominatim_last, notOsm>>

NextOsm ==
    \/ TimedGeocode
    \/ TimedSearchByLocation
    \/ TimedSearchNearby
    \/ TimePasses

SpecOsm == InitOsm /\ [][NextOsm]_vars

(***************************************************************************)
(* Claims about the Nominatim rate limit (SpecOsm)                         *)
(***************************************************************************)
\* C13: for any sequence of geocode / search_businesses_by_location calls on
\* one OSMService instance, two consecutive Nominatim requests are sent at
\* least 1.0 second apart.
C13_OneRequestPerSecond ==
    nominatim_prev # NONE => nominatim_last - nominatim_prev >= OneSecond

\* A geocode call made 0.3 s after the previous request was sent slept the
\* remaining 0.7 s: its request left exactly one second after the previous.
C13_Witness ==
    /\ nominatim_prev # NONE
    /\ nominatim_last - nominatim_prev = OneSecond
    /\ osm_now = nominatim_last
    /\ last_request_time = nominatim_last

(***************************************************************************)
(* SpecRadar: the scraping script, RadarLead/Sandbox/first_test.py          *)
(*                                                                         *)
(* run_radar_test is one coroutine; radar_pc is the statement it is about  *)
(* to run.  The page is the environment: the number of listing elements in *)
(* the feed only grows while the feed is scrolled, and any awaited call on *)
(* the page may raise.                                                     *)
(***************************************************************************)
MaxListings == 3
MaxRadarResults == 3
max_scroll_attempts == 10

RadarMin(a, b) == IF a < b THEN a ELSE b

\* The condition of `while checked_count < max_results and scroll_attempts <
\* max_scroll_attempts`.
ScrollContinues_NoLimit(count, maximum, attempts) == count < maximum
ScrollContinues(count, maximum, attempts) ==
    count < maximum /\ attempts < max_scroll_attempts

\* len(listings[:max_results]) for max_results >= 0.
SliceLen(n, maximum) == RadarMin(n, maximum)

InitRadar ==
    /\ ArchetypeIdle
    /\ WebsiteIdle
    /\ MapIdle
    /\ BulkIdle
    /\ StatcastIdle
    /\ MatchupIdle
    /\ GradingIdle
    /\ AppOpened
    /\ EtlIdle
    /\ ApiIdle
    /\ ServiceIdle
    /\ OsmIdle
    /\ radar_pc = "start"
    /\ radar_max \in 0..MaxRadarResults
    /\ browser = "none"
    /\ feed = 0
    /\ previous_count = 0
    /\ scroll_attempts = 0
    /\ listings = 0
    /\ listing_idx = 0
    /\ checked_count = 0
    /\ checked = {}
    /\ leads = <<>>

radarLocals == <<previous_count, scroll_attempts, listings, listing_idx, checked_count, checked, leads>>

\* async_playwright() and chromium.launch(): the browser session opens, or
\* the launch raises and the call ends with no browser.
Launch ==
    /\ radar_pc = "start"
    /\ \E ok \in BOOLEAN :
           IF ok THEN radar_pc' = "goto" /\ browser' = "open"
                 ELSE radar_pc' = "raised" /\ browser' = "none"
    /\ UNCHANGED <<radar_max, feed, radarLocals, notRadar>>

\* new_context, new_page and page.goto run before the try statement: when
\* one raises, the exception leaves the `async with` block, whose exit stops
\* Playwright and the browser it launched.
Goto ==
    /\ radar_pc = "goto"
    /\ \E ok \in BOOLEAN, loaded \in 0..MaxListings :
           IF ok THEN radar_pc' = "wait" /\ browser' = browser /\ feed' = loaded
                 ELSE radar_pc' = "raised" /\ browser' = "stopped" /\ feed' = feed
    /\ UNCHANGED <<radar_max, radarLocals, notRadar>>

\* wait_for_selector('div[role="feed"]') and the initialisation of the
\* scroll loop; a timeout is caught by the outer except.
WaitForFeed ==
    /\ radar_pc = "wait"
    /\ \E ok \in BOOLEAN : radar_pc' = IF ok THEN "scroll" ELSE "finally"
    /\ previous_count' = 0
    /\ scroll_attempts' = 0
    /\ UNCHANGED <<radar_max, browser, feed, listings, listing_idx, checked_count, checked, leads, notRadar>>

\* One iteration of the scroll loop: count the listings, compare with the
\* previous count, scroll the feed (which may load more listings, or raise),
\* and break when enough listings are loaded.
Scroll ==
    /\ radar_pc = "scroll"
    /\ ScrollContinues(checked_count, radar_max, scroll_attempts)
    /\ LET current_count == feed
       IN  /\ scroll_attempts' = IF current_count = previous_count
                                 THEN scroll_attempts + 1 ELSE 0
           /\ previous_count' = current_count
           /\ \E ok \in BOOLEAN, loaded \in feed..MaxListings :
                  IF ok
                  THEN /\ feed' = loaded
                       /\ radar_pc' = IF current_count >= radar_max
                                      THEN "listings" ELSE "scroll"
                  ELSE /\ feed' = feed
                       /\ radar_pc' = "finally"
    /\ UNCHANGED <<radar_max, browser, listings, listing_idx, checked_count, checked, leads, notRadar>>

\* The while condition is false: the loop is left.
ScrollDone ==
    /\ radar_pc = "scroll"
    /\ ~ScrollContinues(checked_count, radar_max, scroll_attempts)
    /\ radar_pc' = "listings"
    /\ UNCHANGED <<radar_max, browser, feed, radarLocals, notRadar>>

\* listings = page.locator('div[role="article"]').all(), then the for loop
\* over listings[:max_results] starts.
GetListings ==
    /\ radar_pc = "listings"
    /\ \E ok \in BOOLEAN :
           IF ok THEN /\ radar_pc' = "loop"
                      /\ listings' = feed
                      /\ listing_idx' = 1
                 ELSE /\ radar_pc' = "finally"
                      /\ UNCHANGED <<listings, listing_idx>>
    /\ UNCHANGED <<radar_max, browser, feed, previous_count, scroll_attempts, checked_count, checked, leads, notRadar>>

\* One iteration of the for loop.  The listing is a lead (no website found),
\* has a website, has no extractable name (continue), or raises (caught by
\* the inner except, continue).
ListingOutcomes == {"lead", "website", "no name", "error"}

CheckListing ==
    /\ radar_pc = "loop"
    /\ listing_idx <= SliceLen(listings, radar_max)
    /\ checked_count < radar_max
    /\ \E found \in ListingOutcomes :
           /\ leads' = IF found = "lead" THEN Append(leads, listing_idx) ELSE leads
           /\ checked' = IF found \in {"lead", "website"}
                         THEN checked \union {[idx |-> listing_idx, website |-> (found = "website")]}
                         ELSE checked
           /\ checked_count' = IF found \in {"lead", "website"}
                               THEN checked_count + 1 ELSE checked_count
    /\ listing_idx' = listing_idx + 1
    /\ UNCHANGED <<radar_pc, radar_max, browser, feed, previous_count, scroll_attempts, listings, notRadar>>

\* The for loop is exhausted or breaks; the summary is printed.
Summary ==
    /\ radar_pc = "loop"
    /\ \/ listing_idx > SliceLen(listings, radar_max)
       \/ checked_count >= radar_max
    /\ radar_pc' = "finally"
    /\ UNCHANGED <<radar_max, browser, feed, radarLocals, notRadar>>

\* finally: await browser.close(); return leads.  When close() itself
\* raises, the exception leaves the `async with` block instead.
Close ==
    /\ radar_pc = "finally"
    /\ \E ok \in BOOLEAN :
           IF ok THEN radar_pc' = "returned" /\ browser' = "closed"
                 ELSE radar_pc' = "raised" /\ browser' = "stopped"
    /\ UNCHANGED <<radar_max, feed, radarLocals, notRadar>>

NextRadar ==
    \/ Launch
    \/ Goto
    \/ WaitForFeed
    \/ Scroll
    \/ ScrollDone
    \/ GetListings
    \/ CheckListing
    \/ Summary
    \/ Close

\* The coroutine is run to completion by asyncio.run: it always takes its
\* next step.
SpecRadar == InitRadar /\ [][NextRadar]_vars /\ WF_vars(NextRadar)

(***************************************************************************)
(* Claims about the scraping script (SpecRadar)                            *)
(***************************************************************************)
RadarEnded == radar_pc \in {"returned", "raised"}

RadarSafe ==
    /\ scroll_attempts <= max_scroll_attempts
    /\ radar_pc \in {"listings", "loop"}
           => \/ scroll_attempts = max_scroll_attempts
              \/ previous_count >= radar_max
    /\ checked_count <= radar_max
    /\ checked_count = Cardinality(checked)
    /\ \A i \in 1..Len(leads) : [idx |-> leads[i], website |-> FALSE] \in checked
    /\ browser \in {"none", "open", "closed", "stopped"}
    /\ RadarEnded => browser # "open"
    /\ radar_pc = "returned" => browser = "closed"

MaxDay == 11
MaxSeedDays == 3

\* strftime('%Y-%m-%d'): zero-padded digits, most significant first.
strftime(day) == <<day \div 10, day % 10>>
\* Comparison of two formatted dates as strings.
StrLessEq(a, b) == a[1] < b[1] \/ (a[1] = b[1] /\ a[2] <= b[2])
\* pyb.statcast parses start_dt and end_dt back to dates.
ParseDate(str) == 10 * str[1] + str[2]

RECURSIVE DaysIn(_, _)
DaysIn(first, last) ==
    IF first > last THEN <<>>
    ELSE IF first \in game_days THEN <<first>> \o DaysIn(first + 1, last)
    ELSE DaysIn(first + 1, last)

\* pyb.statcast(start_dt, end_dt): the rows of the window, oldest first.
statcast(start_dt, end_dt) == DaysIn(ParseDate(start_dt), ParseDate(end_dt))

RECURSIVE SeqMax(_)
SeqMax(seq) ==
    IF seq = <<>> THEN NONE
    ELSE LET rest == SeqMax(Tail(seq)) IN IF Head(seq) > rest THEN Head(seq) ELSE rest

\* SELECT MAX(game_date): NULL on an empty table.
get_latest_date_from_db(table) == SeqMax(table)

\* fetch_start of update_fact_statcast_pitches.
FetchStart_FromLastDate(last_date) == strftime(last_date)
FetchStart(last_date) == strftime(last_date + 1)

\* update_fact_statcast_pitches(engine) run on day now against table.  The
\* query raises when the table does not exist, pyb.statcast may raise; in
\* both cases nothing is written.
update_fact_statcast_pitches(table, now, failure) ==
    IF table = NoTable
    THEN [table |-> table, request |-> NoFetch, outcome |-> "raised"]
    ELSE LET last_date == get_latest_date_from_db(table)
         IN  IF last_date # NONE
             THEN LET fetch_start == FetchStart(last_date)
                      fetch_end == strftime(now - 1)
                  IN  IF StrLessEq(fetch_start, fetch_end)
                      THEN IF failure
                           THEN [table |-> table, request |-> <<fetch_start, fetch_end>>,
                                 outcome |-> "raised"]
                           ELSE [table |-> table \o statcast(fetch_start, fetch_end),
                                 request |-> <<fetch_start, fetch_end>>,
                                 outcome |-> "fetched"]
                      ELSE [table |-> table, request |-> NoFetch, outcome |-> "up to date"]
             ELSE [table |-> table, request |-> NoFetch, outcome |-> "empty"]

\* create_fact_statcast_events_pitch_by_pitch(engine, n_days): the table is
\* replaced by the last n_days days unless the fetch fails or is empty; a
\* failed load is caught and leaves the table as it was.
create_fact_statcast_events_pitch_by_pitch(table, now, n_days, failure) ==
    LET start_date_str == strftime(now - n_days)
        end_date_str == strftime(now - 1)
        df == statcast(start_date_str, end_date_str)
        window == <<start_date_str, end_date_str>>
    IN  IF failure = "extraction"
        THEN [table |-> table, request |-> window, outcome |-> "seed failed"]
        ELSE IF df = <<>>
        THEN [table |-> table, request |-> window, outcome |-> "seed empty"]
        ELSE IF failure = "loading"
        THEN [table |-> table, request |-> window, outcome |-> "seed failed"]
        ELSE [table |-> df, request |-> window, outcome |-> "seeded"]

InitStatcast ==
    /\ ArchetypeIdle
    /\ WebsiteIdle
    /\ MapIdle
    /\ BulkIdle
    /\ MatchupIdle
    /\ GradingIdle
    /\ AppOpened
    /\ EtlIdle
    /\ ApiIdle
    /\ ServiceIdle
    /\ OsmIdle
    /\ RadarIdle
    /\ fact_statcast_pitches \in {NoTable, <<>>}
    /\ today = FirstDay
    /\ game_days \in SUBSET ((FirstDay - MaxSeedDays)..(MaxDay - 1))
    /\ statcast_request = NoFetch
    /\ update_outcome = "none"

Ran(r) ==
    /\ fact_statcast_pitches' = r.table
    /\ statcast_request' = r.request
    /\ update_outcome' = r.outcome

SeedStatcast ==
    /\ \E n_days \in 1..MaxSeedDays, failure \in Failures :
           Ran(create_fact_statcast_events_pitch_by_pitch(fact_statcast_pitches, today, n_days, failure))
    /\ UNCHANGED <<today, game_days, notStatcast>>

UpdateStatcast ==
    /\ \E failure \in BOOLEAN :
           Ran(update_fact_statcast_pitches(fact_statcast_pitches, today, failure))
    /\ UNCHANGED <<today, game_days, notStatcast>>

\* Midnight: the next run sees a later date.today(); update_outcome is the
\* outcome of the last run made today.
DayPasses ==
    /\ today < MaxDay
    /\ today' = today + 1
    /\ update_outcome' = "none"
    /\ UNCHANGED <<fact_statcast_pitches, game_days, statcast_request, notStatcast>>

NextStatcast ==
    \/ SeedStatcast
    \/ UpdateStatcast
    \/ DayPasses

SpecStatcast == InitStatcast /\ [][NextStatcast]_vars

(***************************************************************************)
(* Claims about the incremental update (SpecStatcast)                      *)
(***************************************************************************)
StoredDates == {fact_statcast_pitches[i] : i \in 1..Len(fact_statcast_pitches)}
Stored == fact_statcast_pitches # NoTable /\ fact_statcast_pitches # <<>>
Latest(table) == SeqMax(table)
Earliest(table) == CHOOSE d \in StoredDates : \A e \in StoredDates : d <= e

\* C15: an update fetches from the day after the latest stored game_date up
\* to yesterday: over any sequence of runs no game date is stored twice, and
\* after an update that ran to its end every game day between the first
\* stored date and yesterday is stored; when the latest stored date is
\* yesterday or later, or when the table is empty, the update fetches
\* nothing and writes nothing.
C15_NoDuplicateNoGap ==
    /\ Stored => Cardinality(StoredDates) = Len(fact_statcast_pitches)
    /\ update_outcome \in {"fetched", "up to date"}
           => /\ Stored
              /\ \A day \in game_days :
                     (Earliest(fact_statcast_pitches) <= day /\ day <= today - 1)
                         => day \in StoredDates
    /\ update_outcome = "fetched"
           => /\ ParseDate(statcast_request[2]) = today - 1
              /\ \A day \in StoredDates : day <= today - 1
    /\ update_outcome = "up to date"
           => /\ statcast_request = NoFetch
              /\ Latest(fact_statcast_pitches) >= today - 1
    /\ update_outcome = "empty"
           => /\ statcast_request = NoFetch
              /\ fact_statcast_pitches = <<>>

\* Two days after the seed an update fetched the two missing days, both game
\* days, across the change from a one-digit to a two-digit day number.
C15_Witness ==
    /\ update_outcome = "fetched"
    /\ statcast_request = <<strftime(9), strftime(10)>>
    /\ today = 11
    /\ {8, 9, 10} \subseteq StoredDates
    /\ Len(fact_statcast_pitches) >= 3

(***************************************************************************)
(* Claims about leaving the payment page (SpecApp)                         *)
(***************************************************************************)
\* C16: when the payment page is shown (show_payment True) and the user
\* selects a page in the sidebar navigation, show_payment is reset to False
\* and the selected page is rendered instead of the payment page.
C16_Original ==
    [][(session_state.show_payment /\ nav_selected' # nav_selected)
           => /\ ~session_state'.show_payment
              /\ session_state'.selected_page = pages[nav_selected']
              /\ rendered'[Len(rendered')] # "payment"]_vars

(***************************************************************************)
(* Claims about the percentile threshold rules (SpecEdge)                  *)
(***************************************************************************)
HasReason(rule, delta) ==
    \E i \in 1..Len(edge.reasons) : edge.reasons[i] = [rule |-> rule, delta |-> delta]

\* The three pitch classes: the pitcher's usage, its threshold, and the
\* hitter's matching wOBA percentile, as stored in the two rows.
PitchClasses ==
    { [ usage |-> pitcher.ffour_usage, threshold |-> 40, pct |-> hitter.woba_hard_pct,
        weak |-> "Fastball vs Weakness", strong |-> "Fastball vs Strength" ],
      [ usage |-> pitcher.bb_usage, threshold |-> 30, pct |-> hitter.woba_break_pct,
        weak |-> "Breaking Ball vs Weakness", strong |-> "Breaking Ball vs Strength" ],
      [ usage |-> pitcher.offspeed_usage, threshold |-> 25, pct |-> hitter.woba_offspeed_pct,
        weak |-> "Offspeed vs Weakness", strong |-> "Offspeed vs Strength" ] }

\* C17: the percentile rules fire for every percentile in [0,100]: when the
\* usage exceeds its threshold and the hitter's percentile is below 30, a
\* percentile of 0 included, the edge gets +0.8 and a 'vs Weakness' reason;
\* when the percentile is above 70 it gets -0.8; never both for one class.
C17_Original ==
    edge.done =>
        \A c \in PitchClasses :
            /\ (c.usage # NONE /\ c.usage > c.threshold /\ c.pct # NONE
                    /\ 0 <= c.pct /\ c.pct < 30)
                   => HasReason(c.weak, 8)
            /\ (c.usage # NONE /\ c.usage > c.threshold /\ c.pct # NONE
                    /\ c.pct > 70 /\ c.pct <= 100)
                   => HasReason(c.strong, 0 - 8)
            /\ ~(HasReason(c.weak, 8) /\ HasReason(c.strong, 0 - 8))

(***************************************************************************)
(* Claims about the threat lists and the lineup order (SpecLineup)         *)
(***************************************************************************)
GameOutcomeOk == outcome.fn = "predict_game_outcome" /\ outcome.status = "ok"

Names(entries) == {entries[i].name : i \in 1..Len(entries)}

\* entries are rows first..(first + Len(entries) - 1) of the analysis.
RowsFrom(entries, first) ==
    \A i \in 1..Len(entries) :
        entries[i] = ThreatEntry(outcome.lineup_analysis[first + i - 1])

\* C18: top_threats holds at most three hitters, all with a negative
\* combined_score, the lowest-scoring of the lineup in ascending order;
\* easy_outs holds at most three hitters, all with a positive combined_score,
\* the highest-scoring of the lineup; no hitter is in both lists.
C18_Original ==
    GameOutcomeOk =>
        /\ Len(outcome.top_threats) <= 3
        /\ \A i \in 1..Len(outcome.top_threats) : outcome.top_threats[i].score < 0
        /\ RowsFrom(outcome.top_threats, 1)
        /\ Len(outcome.easy_outs) <= 3
        /\ \A i \in 1..Len(outcome.easy_outs) : outcome.easy_outs[i].score > 0
        /\ RowsFrom(outcome.easy_outs,
                    Len(outcome.lineup_analysis) - Len(outcome.easy_outs) + 1)
        /\ Names(outcome.top_threats) \cap Names(outcome.easy_outs) = {}

(***************************************************************************)
(* SpecPerformance: predict_lineup_performance called on its own, as the   *)
(* daily-insights page and get_start_sit_recommendations call it, with a   *)
(* lineup of any length.                                                   *)
(***************************************************************************)
\* pd.DataFrame([]) has no column: sort_values('combined_score') raises
\* KeyError when the lineup is empty.
PredictLineupPerformance ==
    /\ outcome.fn = "none"
    /\ outcome' = IF lineup_df = <<>>
                  THEN [NoOutcome EXCEPT !.fn = "predict_lineup_performance",
                                         !.status = "KeyError"]
                  ELSE [NoOutcome EXCEPT !.fn = "predict_lineup_performance",
                                         !.status = "ok",
                                         !.lineup_analysis =
                                             predict_lineup_performance(pitcher, lineup_df)]
    /\ UNCHANGED <<pitcher, hitter, edge, lineup_df, mean_scores, win_probs, matchup, notMatchup>>

NextPerformance == PredictLineupPerformance

SpecPerformance == InitLineup /\ [][NextPerformance]_vars

(***************************************************************************)
(* Claims about predict_lineup_performance (SpecPerformance)               *)
(***************************************************************************)
\* The number of rows of the analysis that are the matchup of hitter h.
RowsOf(h) ==
    Cardinality({i \in 1..Len(outcome.lineup_analysis) :
                    outcome.lineup_analysis[i] = predict_individual_matchup(pitcher, h)})
TimesInLineup(h) == Cardinality({i \in 1..Len(lineup_df) : lineup_df[i] = h})

\* One row per input hitter, nothing dropped or duplicated, ascending by
\* combined_score.
PermutationAscending ==
    /\ outcome.status = "ok"
    /\ Len(outcome.lineup_analysis) = Len(lineup_df)
    /\ \A h \in LineupHitters : RowsOf(h) = TimesInLineup(h)
    /\ \A i \in 1..Len(outcome.lineup_analysis) :
           \E h \in LineupHitters :
               outcome.lineup_analysis[i] = predict_individual_matchup(pitcher, h)
    /\ \A i, j \in 1..Len(outcome.lineup_analysis) :
           i < j => outcome.lineup_analysis[i].combined_score
                        <= outcome.lineup_analysis[j].combined_score

\* C19 (as stated): predict_lineup_performance returns exactly one result row
\* per input hitter, a permutation of the lineup ordered by combined_score
\* ascending.
C19_Original ==
    outcome.fn = "predict_lineup_performance" => PermutationAscending

\* C19 (amended): for a lineup of at least one hitter
\* predict_lineup_performance returns exactly one result row per input
\* hitter, a permutation of the lineup ordered by combined_score ascending;
\* for an empty lineup it raises KeyError and returns nothing.
C19_PermutationAscending ==
    outcome.fn = "predict_lineup_performance"
        => IF Len(lineup_df) >= 1 THEN PermutationAscending
           ELSE outcome.status = "KeyError" /\ outcome.lineup_analysis = <<>>

\* Five hitters given best-for-the-pitcher first came back reordered, with
\* a tie among them.
C19_Witness ==
    /\ outcome.fn = "predict_lineup_performance"
    /\ outcome.status = "ok"
    /\ Len(lineup_df) = 5
    /\ lineup_df[1] = HWeak /\ lineup_df[2] = HStar /\ lineup_df[3] = HStar
    /\ outcome.lineup_analysis[1].hitter_name = "Star"
    /\ outcome.lineup_analysis[2].hitter_name = "Star"
    /\ outcome.lineup_analysis[5].hitter_name = "Weak"

(***************************************************************************)
(* SpecOrder: optimize_lineup_order applied to nine different hitters, who *)
(* all have different names or of whom two share a name.                   *)
(***************************************************************************)
DistinctNames == <<"H1", "H2", "H3", "H4", "H5", "H6", "H7", "H8", "H9">>
SharedNames == [DistinctNames EXCEPT ![8] = "H2"]

Named(lineup, names) == [i \in 1..Len(lineup) |-> [lineup[i] EXCEPT !.full_name = names[i]]]

NamedLineups ==
    {Named(lineup, names) : lineup \in {l \in Lineups : Len(l) = 9},
                            names \in {DistinctNames, SharedNames}}

InitOrder ==
    /\ ArchetypeIdle
    /\ WebsiteIdle
    /\ MapIdle
    /\ BulkIdle
    /\ StatcastIdle
    /\ RadarIdle
    /\ OsmIdle
    /\ ServiceIdle
    /\ ApiIdle
    /\ EtlIdle
    /\ GradingIdle
    /\ AppOpened
    /\ pitcher \in LineupPitchers
    /\ hitter = HNeutral
    /\ edge = NoEdge
    /\ lineup_df \in NamedLineups
    /\ outcome = NoOutcome
    /\ mean_scores = [x |-> 0, y |-> 0]
    /\ win_probs = NoProbs
    /\ matchup = NoMatchup

SuggestOrder ==
    /\ outcome.fn = "none"
    /\ outcome' = optimize_lineup_order(pitcher, lineup_df)
    /\ UNCHANGED <<pitcher, hitter, edge, lineup_df, mean_scores, win_probs, matchup, notMatchup>>

NextOrder == SuggestOrder

SpecOrder == InitOrder /\ [][NextOrder]_vars

(***************************************************************************)
(* Claims about the suggested batting order (SpecOrder)                    *)
(***************************************************************************)
\* C20: optimize_lineup_order gives the nine hitters the batting positions
\* 1..9 as a permutation, each position used exactly once, also when two
\* hitters share a name, with positions non-decreasing in combined_score.
C20_Original ==
    (outcome.fn = "optimize_lineup_order" /\ outcome.status = "ok")
        => /\ Len(outcome.lineup_analysis) = 9
           /\ \A position \in 1..9 :
                  Cardinality({i \in 1..9 :
                      outcome.lineup_analysis[i].suggested_order = position}) = 1
           /\ \A i, j \in 1..9 :
                  outcome.lineup_analysis[i].suggested_order
                      < outcome.lineup_analysis[j].suggested_order
                  => outcome.lineup_analysis[i].combined_score
                         <= outcome.lineup_analysis[j].combined_score

(***************************************************************************)
(* SpecBulk: predict_bulk_matchups, app/utils/matchup_predictor.py          *)
(*                                                                         *)
(* A matchup is described by what its lookups answer: the number of rows   *)
(* the pitcher query returns, the number of rows the hitter query returns, *)
(* and the statement that raises, if one does ("pitcher": the key is       *)
(* missing or the pitcher query fails; "lineup": the hitter query fails;   *)
(* "predict": predict_game_outcome or predict_expected_statistics raises). *)
(* Identifiers are non-empty, so a query filters as its argument asks.     *)
(***************************************************************************)
MaxBatch == 3

\* Mutant: an exception ends the batch.
BulkStep_Aborts(acc, m) ==
    IF acc.aborted THEN acc
    ELSE IF m.raises = "pitcher" THEN [acc EXCEPT !.aborted = TRUE]
    ELSE IF m.pitcher_rows = 0 THEN acc
    ELSE IF m.raises = "lineup" THEN [acc EXCEPT !.aborted = TRUE]
    ELSE IF m.lineup_rows # 9 THEN acc
    ELSE IF m.raises = "predict" THEN [acc EXCEPT !.aborted = TRUE]
    ELSE [acc EXCEPT !.rows = Append(acc.rows, [pitcher_name |-> m.pitcher_name])]

\* One iteration of `for matchup in matchups` (lines 689-726).
BulkStep(acc, m) ==
    IF m.raises = "pitcher" THEN [acc EXCEPT !.errors = acc.errors + 1]
    ELSE IF m.pitcher_rows = 0 THEN acc
    ELSE IF m.raises = "lineup" THEN [acc EXCEPT !.errors = acc.errors + 1]
    ELSE IF m.lineup_rows # 9 THEN acc
    ELSE IF m.raises = "predict" THEN [acc EXCEPT !.errors = acc.errors + 1]
    ELSE [acc EXCEPT !.rows = Append(acc.rows, [pitcher_name |-> m.pitcher_name])]

RECURSIVE BulkLoop(_, _, _)
BulkLoop(batch, k, acc) ==
    IF k > Len(batch) THEN acc
    ELSE BulkLoop(batch, k + 1, BulkStep(acc, batch[k]))

predict_bulk_matchups(batch) ==
    BulkLoop(batch, 1, [rows |-> <<>>, errors |-> 0, aborted |-> FALSE])

\* What the lookups of one matchup answer.
LookupCases ==
    { [pitcher_rows |-> 1, lineup_rows |-> 9, raises |-> "none"],
      [pitcher_rows |-> 0, lineup_rows |-> 9, raises |-> "none"],
      [pitcher_rows |-> 2, lineup_rows |-> 9, raises |-> "none"],
      [pitcher_rows |-> 1, lineup_rows |-> 8, raises |-> "none"],
      [pitcher_rows |-> 1, lineup_rows |-> 10, raises |-> "none"],
      [pitcher_rows |-> 1, lineup_rows |-> 9, raises |-> "pitcher"],
      [pitcher_rows |-> 1, lineup_rows |-> 9, raises |-> "lineup"],
      [pitcher_rows |-> 1, lineup_rows |-> 9, raises |-> "predict"] }

BulkMatchups ==
    { [pitcher_name |-> n] @@ c : n \in {"P1", "P2"}, c \in LookupCases }

BulkBatches == UNION {[1..n -> BulkMatchups] : n \in 0..MaxBatch}

InitBulk ==
    /\ ArchetypeIdle
    /\ WebsiteIdle
    /\ MapIdle
    /\ MatchupIdle
    /\ GradingIdle
    /\ AppOpened
    /\ EtlIdle
    /\ ApiIdle
    /\ ServiceIdle
    /\ OsmIdle
    /\ RadarIdle
    /\ StatcastIdle
    /\ bulk_matchups \in BulkBatches
    /\ bulk_results = <<>>
    /\ bulk_errors = 0
    /\ bulk_done = FALSE

PredictBulkMatchups ==
    /\ ~bulk_done
    /\ LET r == predict_bulk_matchups(bulk_matchups)
       IN  /\ bulk_results' = r.rows
           /\ bulk_errors' = r.errors
    /\ bulk_done' = TRUE
    /\ UNCHANGED <<bulk_matchups, notBulk>>

NextBulk == PredictBulkMatchups

SpecBulk == InitBulk /\ [][NextBulk]_vars

(***************************************************************************)
(* Claims about the bulk prediction (SpecBulk)                             *)
(***************************************************************************)
\* The matchup is skipped: pitcher not found, lineup not of nine, or an
\* exception.
Skipped(m) ==
    \/ m.pitcher_rows = 0
    \/ m.lineup_rows # 9
    \/ m.raises # "none"

\* The positions of the batch whose matchup is not skipped.
Kept == {k \in 1..Len(bulk_matchups) : ~Skipped(bulk_matchups[k])}

\* C21: predict_bulk_matchups skips a matchup whose pitcher is not found,
\* whose lineup does not resolve to exactly 9 hitters, or whose prediction
\* raises, without aborting the batch; every other matchup yields exactly
\* one result row, in input order, so there are at most len(matchups) rows.
C21_SkipAndMoveOn ==
    bulk_done =>
        /\ Len(bulk_results) = Cardinality(Kept)
        /\ Len(bulk_results) <= Len(bulk_matchups)
        /\ \A k \in Kept :
               bulk_results[Cardinality({j \in Kept : j <= k})].pitcher_name
                   = bulk_matchups[k].pitcher_name

\* A batch of three whose second matchup raised: the first and the third
\* gave the two result rows, in that order.
C21_Witness ==
    /\ bulk_done
    /\ Len(bulk_matchups) = 3
    /\ bulk_matchups[2].raises = "predict"
    /\ bulk_errors = 1
    /\ bulk_results = <<[pitcher_name |-> "P2"], [pitcher_name |-> "P1"]>>

(***************************************************************************)
(* Claims about unknown business types (SpecService)                       *)
(***************************************************************************)
\* The business type, lowered and stripped, equals no key of the mapping,
\* contains none and is contained in none.
UnknownType(business_type) ==
    LET typed == StripBlanks(Lower(Spelling[business_type]))
    IN  \A k \in 1..Len(mappings) :
            /\ mappings[k].key # typed
            /\ ~SubstringOf(mappings[k].key, typed)
            /\ ~SubstringOf(typed, mappings[k].key)

EmptyWithoutOverpass ==
    /\ ~svc_result.raised
    /\ ~svc_result.none
    /\ svc_result.value = <<>>
    /\ CountOf(svc_result.requests, "overpass") = 0

\* C22: when the business type matches no key of the OSM tag mapping,
\* neither exactly nor as a substring either way, _get_osm_tags returns '|'
\* for amenity, shop and tourism and the search returns an empty list
\* without sending an Overpass request; search_businesses_by_location also
\* returns an empty list without an Overpass request when geocoding fails.
C22_UnknownTypeNoSearch ==
    (svc_result.done /\ svc_call.method \in OsmSearches)
        => /\ UnknownType(svc_call.business_type)
                  => /\ get_osm_tags(svc_call.business_type) = NoTags
                     /\ EmptyWithoutOverpass
           /\ (svc_call.method = "search_businesses_by_location"
                  /\ svc_call.geocode \in {"raises", "not_found"})
                  => EmptyWithoutOverpass

\* A nearby search for "dentist", which no key of the mapping matches, came
\* back empty with no request sent although Overpass had elements to give.
C22_Witness ==
    /\ svc_result.done
    /\ svc_call.method = "search_businesses_nearby"
    /\ svc_call.business_type = "dentist"
    /\ svc_call.overpass = "elements"
    /\ svc_result.value = <<>>
    /\ svc_result.requests = <<>>

(***************************************************************************)
(* SpecMap: the map-search page of the RadarLead apps.  One action is one  *)
(* interaction of the user with the page: the script run it triggers and   *)
(* the runs that st.rerun() starts after it.                               *)
(***************************************************************************)
MaxCoord == 2
Lats == 0..MaxCoord
Lngs == {0, 2}
MapPoints == Lats \X Lngs
RadiusChoices == {1, 5, 20}
MapBusinessTypes == {"", "hotel"}
SearchOutcomes == {"found", "empty", "raises"}

\* Distances are in units of the threshold.
threshold == 1

AbsDiff(a, b) == IF a >= b THEN a - b ELSE b - a

\* lat_diff > threshold or lng_diff > threshold
IsNewClick(click, current) ==
    \/ AbsDiff(click[1], current[1]) > threshold
    \/ AbsDiff(click[2], current[2]) > threshold

\* The session state of the page.
MapSession == [map_center |-> map_center, businesses |-> map_businesses, search_location |-> search_location]

\* A successful search that forgets the selected location.
StoreResults_Recentres(ss, final) ==
    [ss EXCEPT !.businesses = TRUE, !.map_center = Montreal, !.search_location = final]

\* The non-empty result of a search is stored in the session.
StoreResults(ss, final) ==
    [ss EXCEPT !.businesses = TRUE, !.map_center = final, !.search_location = final]

\* One run of the page script: click is the component's last_clicked,
\* typed the values of the two number inputs.
MapPage(ss, click, update_coords, typed, search_pressed, business_type, search_outcome) ==
    IF click # NoPoint /\ IsNewClick(click, ss.map_center)
    THEN [ss |-> [ss EXCEPT !.map_center = click], rerun |-> TRUE, searched |-> NoPoint]
    ELSE IF update_coords
    THEN [ss |-> [ss EXCEPT !.map_center = typed], rerun |-> TRUE, searched |-> NoPoint]
    ELSE IF ~search_pressed \/ business_type = ""
    THEN [ss |-> ss, rerun |-> FALSE, searched |-> NoPoint]
    ELSE IF search_outcome = "found"
    THEN [ss |-> StoreResults(ss, ss.map_center), rerun |-> TRUE, searched |-> ss.map_center]
    ELSE [ss |-> ss, rerun |-> FALSE, searched |-> ss.map_center]

\* The runs that follow a st.rerun(): no button is pressed in them.
RECURSIVE Settle(_, _)
Settle(ss, click) ==
    LET run == MapPage(ss, click, FALSE, ss.map_center, FALSE, "", "empty")
    IN  IF run.rerun THEN Settle(run.ss, click) ELSE run.ss

\* A whole interaction: the run it triggers, then the reruns.  The map
\* component reports reported in the first run and later in the reruns.
MapInteraction(reported, later, update_coords, typed, search_pressed, search_outcome, event) ==
    LET first == MapPage(MapSession, reported, update_coords, typed, search_pressed, business_type_map, search_outcome)
        final == IF first.rerun THEN Settle(first.ss, later) ELSE first.ss
    IN  /\ map_center' = final.map_center
        /\ map_businesses' = final.businesses
        /\ search_location' = final.search_location
        /\ last_clicked' = (IF first.rerun THEN later ELSE reported)
        /\ searched_at' = first.searched
        /\ map_event' = event

\* Whether the component still reports an earlier click in a later run is
\* up to the component: it reports it again or reports nothing.
Reported(click) == {click, NoPoint}

InitMap ==
    /\ ArchetypeIdle
    /\ WebsiteIdle
    /\ MatchupIdle
    /\ GradingIdle
    /\ AppOpened
    /\ EtlIdle
    /\ ApiIdle
    /\ ServiceIdle
    /\ OsmIdle
    /\ RadarIdle
    /\ StatcastIdle
    /\ BulkIdle
    /\ MapIdle

\* The user clicks on the map.
MapClick ==
    /\ \E p \in MapPoints : \E later \in Reported(p) :
         MapInteraction(p, later, FALSE, map_center, FALSE, "empty", "click")
    /\ UNCHANGED <<business_type_map, radius_km>>
    /\ UNCHANGED notMap

\* The user types coordinates and presses Update Map.
UpdateMap ==
    /\ \E typed \in MapPoints : \E reported \in Reported(last_clicked) : \E later \in Reported(reported) :
         MapInteraction(reported, later, TRUE, typed, FALSE, "empty", "update")
    /\ UNCHANGED <<business_type_map, radius_km>>
    /\ UNCHANGED notMap

\* The user presses the search button.
SearchBusinesses ==
    /\ \E o \in SearchOutcomes : \E reported \in Reported(last_clicked) : \E later \in Reported(reported) :
         MapInteraction(reported, later, FALSE, map_center, TRUE, o, "search")
    /\ UNCHANGED <<business_type_map, radius_km>>
    /\ UNCHANGED notMap

\* The user moves the radius slider.
ChangeRadius ==
    /\ \E r \in RadiusChoices \ {radius_km} : radius_km' = r
    /\ \E reported \in Reported(last_clicked) : \E later \in Reported(reported) :
         MapInteraction(reported, later, FALSE, map_center, FALSE, "empty", "radius")
    /\ UNCHANGED business_type_map
    /\ UNCHANGED notMap

\* The user edits the business type.
ChangeBusinessType ==
    /\ \E t \in MapBusinessTypes \ {business_type_map} : business_type_map' = t
    /\ \E reported \in Reported(last_clicked) : \E later \in Reported(reported) :
         MapInteraction(reported, later, FALSE, map_center, FALSE, "empty", "business_type")
    /\ UNCHANGED radius_km
    /\ UNCHANGED notMap

\* The page runs again with nothing pressed (another widget, a reload of
\* the script).
MapRerun ==
    /\ \E reported \in Reported(last_clicked) : \E later \in Reported(reported) :
         MapInteraction(reported, later, FALSE, map_center, FALSE, "empty", "rerun")
    /\ UNCHANGED <<business_type_map, radius_km>>
    /\ UNCHANGED notMap

NextMap ==
    \/ MapClick
    \/ UpdateMap
    \/ SearchBusinesses
    \/ ChangeRadius
    \/ ChangeBusinessType
    \/ MapRerun

SpecMap == InitMap /\ [][NextMap]_vars

(***************************************************************************)
(* Claims about the map page (SpecMap)                                     *)
(***************************************************************************)
\* The interaction moved the map centre.
CentreMoved == map_center' # map_center

\* C23: the map centre changes only through a map click farther than the
\* threshold from the centre or through the Update Map button: a search
\* (found, empty or failing, or refused for a missing business type), a
\* change of the radius or of the business type and a plain rerun leave
\* map_center as it was, and a search is made at the current map_center.
C23_CentreKept ==
    [][/\ CentreMoved => map_event' \in {"click", "update"}
       /\ (CentreMoved /\ map_event' = "click") => IsNewClick(map_center', map_center)
       /\ map_event' \in {"search", "radius", "business_type", "rerun"} => map_center' = map_center
       /\ searched_at' # NoPoint => (searched_at' = map_center /\ map_center' = map_center)]_vars

\* A search found businesses at a centre the user had chosen, and the
\* centre is still the chosen one.
C23_Witness ==
    /\ map_event = "search"
    /\ map_businesses
    /\ map_center # Montreal
    /\ searched_at = map_center
    /\ search_location = map_center

(***************************************************************************)
(* SpecWebsite: the website fields of the businesses the two services      *)
(* build, and the lists the apps derive from them.                         *)
(***************************************************************************)
MaxFound == 2

\* A JSON value of a field: the key is missing, null, an empty string or a
\* URL.
Absent == "<absent>"
Null == "<null>"
SiteUrl == "http://site"

\* dict.get(key, default): the default replaces a missing key only, and
\* JSON null is None.
DictGet(v, default) == IF v = Absent THEN default ELSE v

\* bool(v) of None or a string
PyBool(v) == v # Null /\ v # ""

\* a or b
PyOr(a, b) == IF PyBool(a) THEN a ELSE b

\* The details answers of Google Places: a status and the website field.
PlaceResults ==
    [status : {"OK"}, website : {Absent, Null, "", SiteUrl}]
        \cup {[status |-> "NOT_FOUND", website |-> Absent]}

\* The elements of an Overpass answer: whether coordinates can be read
\* (a node, or a way with a centre) and the two website tags.
OsmElements ==
    [located : BOOLEAN, website : {Absent, "", SiteUrl}, contact_website : {Absent, "", SiteUrl}]

\* PlacesService.get_place_details: 'website' and 'has_website'.
PlaceWebsite(place_result) == DictGet(place_result.website, "")
PlaceHasWebsite(place_result) == PyBool(DictGet(place_result.website, Null))

\* OSMService.search_businesses_nearby: 'website' and 'has_website'.
OsmWebsite(osm_tags) ==
    PyOr(DictGet(osm_tags.website, Null), DictGet(osm_tags.contact_website, ""))

\* Mutant: only the website tag counts.
OsmHasWebsite_WebsiteTagOnly(osm_tags) ==
    PyBool(DictGet(osm_tags.website, Null))

OsmHasWebsite(osm_tags) ==
    PyBool(PyOr(DictGet(osm_tags.website, Null), DictGet(osm_tags.contact_website, Null)))

\* The businesses built from answers k.. ; the identifier is the position
\* of the answer.
RECURSIVE PlaceBusinesses(_, _)
PlaceBusinesses(answers, k) ==
    IF k > Len(answers) THEN <<>>
    ELSE (IF answers[k].status = "OK"
          THEN <<[id |-> k, website |-> PlaceWebsite(answers[k]), has_website |-> PlaceHasWebsite(answers[k])]>>
          ELSE <<>>) \o PlaceBusinesses(answers, k + 1)

RECURSIVE OsmTagBusinesses(_, _)
OsmTagBusinesses(answers, k) ==
    IF k > Len(answers) THEN <<>>
    ELSE (IF answers[k].located
          THEN <<[id |-> k, website |-> OsmWebsite(answers[k]), has_website |-> OsmHasWebsite(answers[k])]>>
          ELSE <<>>) \o OsmTagBusinesses(answers, k + 1)

\* display_results, "With Websites Only": b.get('has_website', False)
HasWebsite(biz) == biz.has_website
businesses_with_website(businesses) == SelectSeq(businesses, HasWebsite)

SeqsUpTo(S, n) == UNION {[1..k -> S] : k \in 0..n}

InitWebsite ==
    /\ ArchetypeIdle
    /\ MatchupIdle
    /\ GradingIdle
    /\ AppOpened
    /\ EtlIdle
    /\ ApiIdle
    /\ ServiceIdle
    /\ OsmIdle
    /\ RadarIdle
    /\ StatcastIdle
    /\ BulkIdle
    /\ MapIdle
    /\ \/ web_service = "places" /\ web_raw \in SeqsUpTo(PlaceResults, MaxFound)
       \/ web_service = "osm" /\ web_raw \in SeqsUpTo(OsmElements, MaxFound)
    /\ web_businesses = <<>>
    /\ web_without = <<>>
    /\ web_with = <<>>
    /\ web_done = FALSE

\* The app stores the result of a search and the lists derived from it.
StoreWebsiteLists(businesses) ==
    /\ web_businesses' = businesses
    /\ web_without' = filter_businesses_without_website(businesses)
    /\ web_with' = businesses_with_website(businesses)
    /\ web_done' = TRUE

\* A search with the Google Places service.
WebsitePlaces ==
    /\ ~web_done
    /\ web_service = "places"
    /\ StoreWebsiteLists(PlaceBusinesses(web_raw, 1))
    /\ UNCHANGED <<web_service, web_raw>>
    /\ UNCHANGED notWebsite

\* A search with the OpenStreetMap service.
WebsiteOsm ==
    /\ ~web_done
    /\ web_service = "osm"
    /\ StoreWebsiteLists(OsmTagBusinesses(web_raw, 1))
    /\ UNCHANGED <<web_service, web_raw>>
    /\ UNCHANGED notWebsite

NextWebsite ==
    \/ WebsitePlaces
    \/ WebsiteOsm

SpecWebsite == InitWebsite /\ [][NextWebsite]_vars

(***************************************************************************)
(* Claims about the website lists (SpecWebsite)                            *)
(***************************************************************************)
\* The positions of the businesses with the given has_website value.
PositionsWhere(flag) == {i \in 1..Len(web_businesses) : web_businesses[i].has_website = flag}

\* sub is made of the businesses at the positions idxs, in their order.
InOrderAt(sub, idxs) ==
    /\ Len(sub) = Cardinality(idxs)
    /\ \E f \in [1..Len(sub) -> idxs] :
         /\ \A i \in 1..Len(sub) : sub[i] = web_businesses[f[i]]
         /\ \A i, j \in 1..Len(sub) : i < j => f[i] < f[j]

\* The website field holds something.
NonEmptyWebsite(biz) == biz.website # "" /\ biz.website # Null /\ biz.website # Absent

\* C24: the without-website list is exactly the businesses whose
\* has_website is false, in their original order; with the with-website
\* list it partitions the search result (the sizes sum to the total); and
\* every business of either service has has_website true exactly when its
\* website field is non-empty.
C24_WebsitePartition ==
    web_done =>
        /\ InOrderAt(web_without, PositionsWhere(FALSE))
        /\ InOrderAt(web_with, PositionsWhere(TRUE))
        /\ Len(web_without) + Len(web_with) = Len(web_businesses)
        /\ \A i \in 1..Len(web_businesses) :
             web_businesses[i].has_website <=> NonEmptyWebsite(web_businesses[i])

\* An OSM search returned a business whose website comes from the
\* contact:website tag next to a business without website.
C24_Witness ==
    /\ web_done
    /\ web_service = "osm"
    /\ Len(web_businesses) = 2
    /\ Len(web_without) = 1
    /\ \E i \in 1..Len(web_raw) : web_raw[i].website # SiteUrl /\ web_raw[i].contact_website = SiteUrl /\ web_raw[i].located

(***************************************************************************)
(* Claims about the letter grades and the talent gap (SpecGrade)           *)
(***************************************************************************)
\* The quality calculate_talent_gap gives to a graded player.
QualityOf(graded) == GradeQuality(GetGrade([overall_grade |-> graded.grade]))

\* C25: every letter grade a grader emits is a key of the talent-gap map
\* (the fallback for unknown grades is never used), and of two players
\* graded by the same grader the one with the lower adjusted score, whose
\* grade is the same or worse, never gets the higher quality value.
C25_Original ==
    /\ \A i \in 1..Len(grades) : GetGrade([overall_grade |-> grades[i].grade]) \in DOMAIN grade_map
    /\ \A i, j \in 1..Len(grades) :
         grades[i].score <= grades[j].score => QualityOf(grades[i]) <= QualityOf(grades[j])

(***************************************************************************)
(* SpecArchetype: the categorical columns the archetype queries derive     *)
(* for one pitcher and one hitter, and their lookup in MATCHUP_MATRIX.     *)
(***************************************************************************)
\* Percentiles and usages on both sides of every cut-off of the CASE
\* expressions.
PitcherStats ==
    [ made : {TRUE}, vaa_plus_pct : {75, 76}, sinker_usage : {25, 26},
      movement_gap_pct : {75, 76}, whiff_pct : {44, 45, 76},
      location_plus_pct : {39, 40, 76} ]

HitterStats ==
    [ made : {TRUE}, avg_la : {7, 12, 19}, battle_pct : {24, 25, 80, 81},
      high_ball_pct : {39, 40, 76}, low_ball_pct : {39, 40, 76} ]

\* CASE ... END as attack_profile
AttackProfile(rs) ==
    IF rs.vaa_plus_pct > 75 THEN "NORTH-SOUTH (High Rise)"
    ELSE IF rs.sinker_usage > 25 THEN "EAST-WEST (Sinker/Run)"
    ELSE IF rs.movement_gap_pct > 75 THEN "DECEPTIVE (High Break)"
    ELSE "BALANCED"

\* CASE ... END as matchup_role
MatchupRole(rs) ==
    IF rs.whiff_pct > 75 /\ rs.location_plus_pct > 75 THEN "DOMINANT ACE"
    ELSE IF rs.whiff_pct > 75 /\ rs.location_plus_pct < 40 THEN "POWER ARMS (High Risk)"
    ELSE IF rs.location_plus_pct > 75 /\ rs.whiff_pct < 45 THEN "PITCH TO CONTACT SURGEON"
    ELSE "ROTATION STABILIZER"

\* CASE ... END AS swing_plane
SwingPlane(hr) ==
    IF hr.avg_la > 18 THEN "UPPERCUT (Flyball)"
    ELSE IF hr.avg_la < 8 THEN "DOWNWARD (Groundball)"
    ELSE "LEVEL (Line Drive)"

\* CASE ... END AS two_strike_identity
TwoStrikeIdentity(hr) ==
    IF hr.battle_pct > 80 THEN "ELITE SPOILER"
    ELSE IF hr.battle_pct < 25 THEN "FREE SWINGER"
    ELSE "STANDARD"

\* CASE ... END AS vertical_profile
VerticalProfile(hr) ==
    IF hr.high_ball_pct > 75 /\ hr.low_ball_pct < 40 THEN "HIGH-BALL HUNTER"
    ELSE IF hr.low_ball_pct > 75 /\ hr.high_ball_pct < 40 THEN "LOW-BALL GOLFER"
    ELSE "ALL-ZONE THREAT"

\* The row of dim_pitcher_archetypes: the columns calculate_matchup_edge
\* reads, the categorical ones as the query derives them.
PitcherArchetypeRow(rs) ==
    [ PNeutral EXCEPT !.attack_profile = AttackProfile(rs), !.matchup_role = MatchupRole(rs) ]

HitterArchetypeRow(hr) ==
    [ HNeutral EXCEPT !.vertical_profile = VerticalProfile(hr),
                      !.two_strike_identity = TwoStrikeIdentity(hr) ]

InitArchetype ==
    /\ MatchupIdle
    /\ GradingIdle
    /\ AppOpened
    /\ EtlIdle
    /\ ApiIdle
    /\ ServiceIdle
    /\ OsmIdle
    /\ RadarIdle
    /\ StatcastIdle
    /\ BulkIdle
    /\ MapIdle
    /\ WebsiteIdle
    /\ pitcher_stats \in PitcherStats
    /\ hitter_stats \in HitterStats
    /\ pitcher_archetype = NoRow
    /\ hitter_archetype = NoRow
    /\ archetype_edge = NoEdge

\* create_dim_pitcher_archetypes derives the pitcher's row.
DerivePitcherArchetype ==
    /\ pitcher_archetype = NoRow
    /\ pitcher_archetype' = [made |-> TRUE, row |-> PitcherArchetypeRow(pitcher_stats)]
    /\ UNCHANGED <<pitcher_stats, hitter_stats, hitter_archetype, archetype_edge>>
    /\ UNCHANGED notArchetype

\* create_dim_hitter_archetypes derives the hitter's row.
DeriveHitterArchetype ==
    /\ hitter_archetype = NoRow
    /\ hitter_archetype' = [made |-> TRUE, row |-> HitterArchetypeRow(hitter_stats), swing_plane |-> SwingPlane(hitter_stats)]
    /\ UNCHANGED <<pitcher_stats, hitter_stats, pitcher_archetype, archetype_edge>>
    /\ UNCHANGED notArchetype

\* The predictor scores the pitcher against the hitter.
ScoreArchetypes ==
    /\ pitcher_archetype.made
    /\ hitter_archetype.made
    /\ ~archetype_edge.done
    /\ LET e == calculate_matchup_edge(pitcher_archetype.row, hitter_archetype.row)
       IN  archetype_edge' = [done |-> TRUE, edge_score |-> e.edge_score, reasons |-> e.reasons]
    /\ UNCHANGED <<pitcher_stats, hitter_stats, pitcher_archetype, hitter_archetype>>
    /\ UNCHANGED notArchetype

NextArchetype ==
    \/ DerivePitcherArchetype
    \/ DeriveHitterArchetype
    \/ ScoreArchetypes

SpecArchetype == InitArchetype /\ [][NextArchetype]_vars

(***************************************************************************)
(* Claims about the compatibility tables (SpecArchetype)                   *)
(***************************************************************************)
\* The pitcher query can produce the first and the hitter query the second
\* value of the key.
PathKeyProduced(key) ==
    \E rs \in PitcherStats, hr \in HitterStats :
        key = <<AttackProfile(rs), VerticalProfile(hr)>>

SkillKeyProduced(key) ==
    \E rs \in PitcherStats, hr \in HitterStats :
        key = <<MatchupRole(rs), TwoStrikeIdentity(hr)>>

\* C26: when the predictor looks the derived rows up, every key of the
\* path_geometry table is matched by an attack_profile the pitcher query
\* produces and a vertical_profile the hitter query produces, and every key
\* of the skill_clash table by a matchup_role and a two_strike_identity the
\* queries produce.
C26_Original ==
    archetype_edge.done =>
        /\ \A key \in DOMAIN MATCHUP_MATRIX.path_geometry : PathKeyProduced(key)
        /\ \A key \in DOMAIN MATCHUP_MATRIX.skill_clash : SkillKeyProduced(key)

====
